---- MODULE Spec2Model ----
(***************************************************************************)
(* A model of the REAPER <-> Go bridge layer (src/src/c/bridge.c and       *)
(* src/src/c/api/*.c): the bootstrap handle s_GetFunc, the resolver        *)
(* plugin_bridge_call_get_func, the typed invocation wrappers              *)
(* plugin_bridge_call_* and the batch engines plugin_bridge_batch_*.       *)
(*                                                                         *)
(* Values.  Every C pointer is a tagged tuple and NULL is the empty tuple: *)
(*   <<"getfunc", i>>      a bootstrap (GetFunc) function pointer          *)
(*   <<"fn", i, name>>     the host function bootstrap i resolves name to  *)
(*   <<"track", i>>        an opaque MediaTrack*                           *)
(*   <<"str", s>>          a const char* pointing at the C string s        *)
(*   <<"buf", s>>          a char* pointing at caller memory holding s     *)
(*   <<"cell", v>>         an int* / double* / bool* pointing at v         *)
(* C int, bool and double values are integers (bool: 0 or 1).              *)
(***************************************************************************)
EXTENDS Integers, Sequences, FiniteSets, TLC

VARIABLES
  s_GetFunc,   \* static void* s_GetFunc: the stored bootstrap handle
  remembered,  \* history: one earlier resolve call and its result
  pending,     \* the call a caller is about to make (NULL: none)
  last         \* the most recent call: arguments, result, native calls, lookups

vars == <<s_GetFunc, remembered, pending, last>>

----------------------------------------------------------------------------
(* Bounds of the model. *)

\* number of distinct bootstrap function pointers the host may hand out
NumBootstraps == 5
\* integer arguments (fx_idx, param_idx, value, flags ...) range over 0..MaxIdx
MaxIdx == 1

\* Slots in a caller's fx_param_t array.
MaxParams == 2

\* Entries in a caller's change list or format request list.
MaxChanges == 3

\* Tracks in a caller's track array.
MaxTracks == 2

----------------------------------------------------------------------------
(* Pointer values. *)

NULL == <<>>
Void == <<"void">>
Str(s) == <<"str", s>>
Buf(s) == <<"buf", s>>
Cell(v) == <<"cell", v>>
Track(i) == <<"track", i>>
GetFuncPtr(i) == <<"getfunc", i>>
HostFn(i, name) == <<"fn", i, name>>

BootstrapHandles == {GetFuncPtr(i) : i \in 1..NumBootstraps}

\* The four operations the batch read requires, in the order it resolves them.
RequiredReadNames ==
  << "TrackFX_GetNumParams", "TrackFX_GetParamName",
     "TrackFX_GetParam", "TrackFX_GetFormattedParamValue" >>

\* The names a REAPER host exports that this layer asks for.
HostNames ==
  { RequiredReadNames[k] : k \in 1..Len(RequiredReadNames) }
    \cup { "TrackFX_FormatParamValue", "TrackFX_SetParam" }

\* The export table behind bootstrap pointer i: pointer 1 is a complete host,
\* pointer k+1 (k = 1..4) is a host that lacks the k-th required read
\* operation, any further pointer is again a complete host.
HostMissing(i) ==
  IF i - 1 \in 1..Len(RequiredReadNames) THEN {RequiredReadNames[i - 1]} ELSE {}

\* get_func(name): the host's lookup, a deterministic function of the
\* bootstrap pointer and the C string it is given.
HostGetFunc(get_func_ptr, name) ==
  IF name[2] \in HostNames \ HostMissing(get_func_ptr[2])
    THEN HostFn(get_func_ptr[2], name[2])
    ELSE NULL

----------------------------------------------------------------------------
(* Capability resolver: src/src/c/bridge.c *)

\* A resolver that consults the stored handle instead of its argument.
call_get_func_uses_global(get_func_ptr, name) ==
  IF get_func_ptr = NULL \/ name = NULL
    THEN [ret |-> NULL, lookups |-> <<>>]
    ELSE IF s_GetFunc = NULL
      THEN [ret |-> NULL, lookups |-> <<>>]
      ELSE [ret |-> HostGetFunc(s_GetFunc, name),
            lookups |-> << [boot |-> s_GetFunc, name |-> name] >>]

\* A resolver that forgets to check the name pointer.
call_get_func_no_name_check(get_func_ptr, name) ==
  IF get_func_ptr = NULL
    THEN [ret |-> NULL, lookups |-> <<>>]
    ELSE [ret |-> IF name = NULL THEN NULL ELSE HostGetFunc(get_func_ptr, name),
          lookups |-> << [boot |-> get_func_ptr, name |-> name] >>]

\* void* plugin_bridge_call_get_func(void* get_func_ptr, const char* name)
plugin_bridge_call_get_func(get_func_ptr, name) ==
  IF get_func_ptr = NULL \/ name = NULL
    THEN [ret |-> NULL, lookups |-> <<>>]
    ELSE [ret |-> HostGetFunc(get_func_ptr, name),
          lookups |-> << [boot |-> get_func_ptr, name |-> name] >>]

\* A setter that stores whatever it is given, NULL included.
set_get_func_unchecked(stored, get_func_ptr) == get_func_ptr

\* void plugin_bridge_set_get_func(void* get_func_ptr): the new s_GetFunc
plugin_bridge_set_get_func(stored, get_func_ptr) ==
  IF get_func_ptr # NULL THEN get_func_ptr ELSE stored

\* A getter that falls back on a built-in handle when none is stored.
get_get_func_with_default ==
  IF s_GetFunc = NULL THEN GetFuncPtr(1) ELSE s_GetFunc

\* void* plugin_bridge_get_get_func()
plugin_bridge_get_get_func == s_GetFunc

----------------------------------------------------------------------------
(* Initial state and the resolver's actions. *)

\* the history of a resolve call is kept for at most this many later calls
MaxAge == 2

NoCall == [boot |-> NULL, name |-> NULL, ret |-> NULL, age |-> 0]

Older(c) == [c EXCEPT !.age = IF c.age < MaxAge THEN c.age + 1 ELSE MaxAge]

NoneYet == [op |-> "init", args |-> <<>>, ret |-> Void, calls |-> <<>>, lookups |-> <<>>]

Init ==
  /\ s_GetFunc = NULL
  /\ remembered = NoCall
  /\ pending = NULL
  /\ last = NoneYet

\* The host (or a test) calls plugin_bridge_set_get_func(h).
SetGetFunc ==
  \E h \in BootstrapHandles \cup {NULL} :
    /\ s_GetFunc' = plugin_bridge_set_get_func(s_GetFunc, h)
    /\ last' = [op |-> "set_get_func", args |-> <<h>>, ret |-> Void,
                calls |-> <<>>, lookups |-> <<>>]
    /\ UNCHANGED <<remembered, pending>>

GetGetFunc ==
  /\ last' = [op |-> "get_get_func", args |-> <<>>,
              ret |-> plugin_bridge_get_get_func,
              calls |-> <<>>, lookups |-> <<>>]
  /\ UNCHANGED <<s_GetFunc, remembered, pending>>

\* The C strings a caller may pass as an operation name.
ResolveNames ==
  {NULL, Str(""), Str("TrackFX_GetParam"), Str("TrackFX_SetParam"), Str("NoSuchFunction")}

\* A caller resolves a name.  remembered is a history variable: one earlier
\* valid resolve call, kept (and aged by one call) or replaced by the new call.
Resolve ==
  \E p \in BootstrapHandles \cup {NULL}, name \in ResolveNames :
    LET r == plugin_bridge_call_get_func(p, name) IN
      /\ last' = [op |-> "call_get_func", args |-> <<p, name>>, ret |-> r.ret,
                  calls |-> <<>>, lookups |-> r.lookups]
      /\ \/ remembered' = IF remembered = NoCall THEN NoCall ELSE Older(remembered)
         \/ /\ p # NULL /\ name # NULL
            /\ remembered' = [boot |-> p, name |-> name, ret |-> r.ret, age |-> 0]
      /\ UNCHANGED <<s_GetFunc, pending>>

NextResolver == SetGetFunc \/ GetGetFunc \/ Resolve

SpecResolver == Init /\ [][NextResolver]_vars

----------------------------------------------------------------------------
(* Typed invocation wrappers: src/src/c/api/{fx,tracks,ui,extstate,undo}.c *)
(* and src/src/c/bridge.c.  Each wrapper takes its C arguments as the      *)
(* record a (fields named as the C parameters) and the host's response to  *)
(* the native call, should it be made, as the record n: n.ret is the value *)
(* the host function returns, n.write the C string it writes into the      *)
(* output buffer (NULL: it writes nothing).  A wrapper yields its return   *)
(* value, the native calls it made, and the output buffer as it leaves it. *)

\* sizeof(params[i].name), sizeof(params[i].formatted)
BufSize == 256

\* return default_value, having called nothing
Reject(default) == [ret |-> default, calls |-> <<>>]

\* cast func_ptr to the host signature, invoke it once, return its result
Invoke(func_ptr, args, result) ==
  [ret |-> result, calls |-> << [fn |-> func_ptr, args |-> args] >>]

\* if (buf && buf_size > 0) buf[0] = '\0';
SafeBuf(buf, buf_size) == IF buf # NULL /\ buf_size > 0 THEN Buf("") ELSE buf

\* the buffer after the host function ran on it
HostWrote(buf, n) == IF n.write = NULL THEN buf ELSE Buf(n.write[2])

WithBuf(r, buf) == [ret |-> r.ret, calls |-> r.calls, buf |-> buf]

\* int plugin_bridge_call_track_fx_get_count(void* func_ptr, void* track)
plugin_bridge_call_track_fx_get_count(a, n) ==
  IF a.func_ptr = NULL \/ a.track = NULL
    THEN Reject(0)
    ELSE Invoke(a.func_ptr, <<a.track>>, n.ret)

\* void plugin_bridge_call_track_fx_get_name(func_ptr, track, fx_idx, buf, buf_size)
plugin_bridge_call_track_fx_get_name(a, n) ==
  IF a.func_ptr = NULL \/ a.track = NULL \/ a.buf = NULL \/ a.buf_size <= 0
    THEN WithBuf(Reject(Void), SafeBuf(a.buf, a.buf_size))
    ELSE WithBuf(Invoke(a.func_ptr, <<a.track, a.fx_idx, a.buf, a.buf_size>>, Void),
                 HostWrote(a.buf, n))

\* int plugin_bridge_call_track_fx_get_param_count(func_ptr, track, fx_idx)
plugin_bridge_call_track_fx_get_param_count(a, n) ==
  IF a.func_ptr = NULL \/ a.track = NULL
    THEN Reject(0)
    ELSE Invoke(a.func_ptr, <<a.track, a.fx_idx>>, n.ret)

\* A name reader that forgets to check the buffer capacity.
get_param_name_no_size_check(a, n) ==
  IF a.func_ptr = NULL \/ a.track = NULL \/ a.buf = NULL
    THEN WithBuf(Reject(Void), SafeBuf(a.buf, a.buf_size))
    ELSE WithBuf(Invoke(a.func_ptr,
                        <<a.track, a.fx_idx, a.param_idx, a.buf, a.buf_size>>, Void),
                 HostWrote(a.buf, n))

\* void plugin_bridge_call_track_fx_get_param_name(func_ptr, track, fx_idx,
\*                                                 param_idx, buf, buf_size)
plugin_bridge_call_track_fx_get_param_name(a, n) ==
  IF a.func_ptr = NULL \/ a.track = NULL \/ a.buf = NULL \/ a.buf_size <= 0
    THEN WithBuf(Reject(Void), SafeBuf(a.buf, a.buf_size))
    ELSE WithBuf(Invoke(a.func_ptr,
                        <<a.track, a.fx_idx, a.param_idx, a.buf, a.buf_size>>, Void),
                 HostWrote(a.buf, n))

\* double plugin_bridge_call_track_fx_get_param(func_ptr, track, fx_idx,
\*                                              param_idx, minval, maxval)
plugin_bridge_call_track_fx_get_param(a, n) ==
  IF a.func_ptr = NULL \/ a.track = NULL
    THEN Reject(0)
    ELSE Invoke(a.func_ptr,
                <<a.track, a.fx_idx, a.param_idx, a.minval, a.maxval>>, n.ret)

\* void plugin_bridge_call_track_fx_get_param_formatted(func_ptr, track, fx_idx,
\*                                                      param_idx, buf, buf_size)
plugin_bridge_call_track_fx_get_param_formatted(a, n) ==
  IF a.func_ptr = NULL \/ a.track = NULL \/ a.buf = NULL \/ a.buf_size <= 0
    THEN WithBuf(Reject(Void), SafeBuf(a.buf, a.buf_size))
    ELSE WithBuf(Invoke(a.func_ptr,
                        <<a.track, a.fx_idx, a.param_idx, a.buf, a.buf_size>>, Void),
                 HostWrote(a.buf, n))

\* A setter that calls the host function even when func_ptr is NULL.
set_param_no_handle_check(a, n) ==
  IF a.track = NULL
    THEN Reject(0)
    ELSE Invoke(a.func_ptr, <<a.track, a.fx_idx, a.param_idx, a.val>>, n.ret)

\* A setter that clamps the value it hands to the host to 0..1 and reports
\* success whatever the host answered.
set_param_clamping(a, n) ==
  IF a.func_ptr = NULL \/ a.track = NULL
    THEN Reject(0)
    ELSE Invoke(a.func_ptr,
                <<a.track, a.fx_idx, a.param_idx, IF a.val > 1 THEN 1 ELSE a.val>>, 1)

\* bool plugin_bridge_call_track_fx_set_param(func_ptr, track, fx_idx, param_idx, val)
plugin_bridge_call_track_fx_set_param(a, n) ==
  IF a.func_ptr = NULL \/ a.track = NULL
    THEN Reject(0)
    ELSE Invoke(a.func_ptr, <<a.track, a.fx_idx, a.param_idx, a.val>>, n.ret)

\* void plugin_bridge_call_track_fx_format_param_value(func_ptr, track, fx_idx,
\*                                            param_idx, value, buf, buf_size)
plugin_bridge_call_track_fx_format_param_value(a, n) ==
  IF a.func_ptr = NULL \/ a.track = NULL \/ a.buf = NULL \/ a.buf_size <= 0
    THEN WithBuf(Reject(Void), SafeBuf(a.buf, a.buf_size))
    ELSE WithBuf(Invoke(a.func_ptr,
                        <<a.track, a.fx_idx, a.param_idx, a.value, a.buf, a.buf_size>>,
                        Void),
                 HostWrote(a.buf, n))

\* bool plugin_bridge_call_track_fx_get_parameter_step_sizes(func_ptr, track,
\*        fx_idx, param_idx, step, small_step, large_step, is_toggle)
plugin_bridge_call_track_fx_get_parameter_step_sizes(a, n) ==
  IF a.func_ptr = NULL \/ a.track = NULL
    THEN Reject(0)
    ELSE Invoke(a.func_ptr,
                <<a.track, a.fx_idx, a.param_idx,
                  a.step, a.small_step, a.large_step, a.is_toggle>>, n.ret)

\* void* plugin_bridge_call_get_selected_track(func_ptr, proj, seltrackidx)
plugin_bridge_call_get_selected_track(a, n) ==
  IF a.func_ptr = NULL
    THEN Reject(NULL)
    ELSE Invoke(a.func_ptr, <<a.proj, a.seltrackidx>>, n.ret)

\* double plugin_bridge_call_track_get_info_value(func_ptr, track, param)
plugin_bridge_call_track_get_info_value(a, n) ==
  IF a.func_ptr = NULL \/ a.track = NULL \/ a.param = NULL
    THEN Reject(0)
    ELSE Invoke(a.func_ptr, <<a.track, a.param>>, n.ret)

\* bool plugin_bridge_call_get_track_name(func_ptr, track, buf, buf_size, flags)
plugin_bridge_call_get_track_name(a, n) ==
  IF a.func_ptr = NULL \/ a.track = NULL \/ a.buf = NULL \/ a.buf_size <= 0
    THEN WithBuf(Reject(0), SafeBuf(a.buf, a.buf_size))
    ELSE WithBuf(Invoke(a.func_ptr, <<a.track, a.buf, a.buf_size, a.flags>>, n.ret),
                 HostWrote(a.buf, n))

\* bool plugin_bridge_call_get_user_inputs(func_ptr, title, num_inputs,
\*                                         captions, values, values_sz)
\* (the rejecting branch returns false and does not touch values)
plugin_bridge_call_get_user_inputs(a, n) ==
  IF a.func_ptr = NULL \/ a.title = NULL \/ a.captions = NULL
       \/ a.values = NULL \/ a.values_sz <= 0
    THEN WithBuf(Reject(0), a.values)
    ELSE WithBuf(Invoke(a.func_ptr,
                        <<a.title, a.num_inputs, a.captions, a.values, a.values_sz>>,
                        n.ret),
                 HostWrote(a.values, n))

\* int plugin_bridge_call_show_message_box(func_ptr, text, title, type)
plugin_bridge_call_show_message_box(a, n) ==
  IF a.func_ptr = NULL \/ a.text = NULL \/ a.title = NULL
    THEN Reject(0)
    ELSE Invoke(a.func_ptr, <<a.text, a.title, a.type>>, n.ret)

\* const char* plugin_bridge_call_get_ext_state(func_ptr, section, key)
plugin_bridge_call_get_ext_state(a, n) ==
  IF a.func_ptr = NULL \/ a.section = NULL \/ a.key = NULL
    THEN Reject(NULL)
    ELSE Invoke(a.func_ptr, <<a.section, a.key>>, n.ret)

\* void plugin_bridge_call_set_ext_state(func_ptr, section, key, value, persist)
plugin_bridge_call_set_ext_state(a, n) ==
  IF a.func_ptr = NULL \/ a.section = NULL \/ a.key = NULL \/ a.value = NULL
    THEN Reject(Void)
    ELSE Invoke(a.func_ptr, <<a.section, a.key, a.value, a.persist>>, Void)

\* bool plugin_bridge_call_has_ext_state(func_ptr, section, key)
\* (the host function is called as int (*)(const char*, const char*) and the
\* wrapper returns result != 0)
plugin_bridge_call_has_ext_state(a, n) ==
  IF a.func_ptr = NULL \/ a.section = NULL \/ a.key = NULL
    THEN Reject(0)
    ELSE Invoke(a.func_ptr, <<a.section, a.key>>, IF n.ret # 0 THEN 1 ELSE 0)

\* void plugin_bridge_call_delete_ext_state(func_ptr, section, key)
plugin_bridge_call_delete_ext_state(a, n) ==
  IF a.func_ptr = NULL \/ a.section = NULL \/ a.key = NULL
    THEN Reject(Void)
    ELSE Invoke(a.func_ptr, <<a.section, a.key>>, Void)

\* void plugin_bridge_call_undo_begin_block(func_ptr)
plugin_bridge_call_undo_begin_block(a, n) ==
  IF a.func_ptr = NULL
    THEN Reject(Void)
    ELSE Invoke(a.func_ptr, <<>>, Void)

\* void plugin_bridge_call_undo_begin_block2(func_ptr, proj)
plugin_bridge_call_undo_begin_block2(a, n) ==
  IF a.func_ptr = NULL
    THEN Reject(Void)
    ELSE Invoke(a.func_ptr, <<a.proj>>, Void)

\* void plugin_bridge_call_undo_end_block(func_ptr, description, flags)
plugin_bridge_call_undo_end_block(a, n) ==
  IF a.func_ptr = NULL \/ a.description = NULL
    THEN Reject(Void)
    ELSE Invoke(a.func_ptr, <<a.description, a.flags>>, Void)

\* void plugin_bridge_call_undo_end_block2(func_ptr, proj, description, flags)
plugin_bridge_call_undo_end_block2(a, n) ==
  IF a.func_ptr = NULL \/ a.description = NULL
    THEN Reject(Void)
    ELSE Invoke(a.func_ptr, <<a.proj, a.description, a.flags>>, Void)

\* void plugin_bridge_call_show_console_msg(func_ptr, message)
plugin_bridge_call_show_console_msg(a, n) ==
  IF a.func_ptr = NULL \/ a.message = NULL
    THEN Reject(Void)
    ELSE Invoke(a.func_ptr, <<a.message>>, Void)

\* int plugin_bridge_call_register(register_func_ptr, name, info)
\* (the rejecting branch returns -1)
plugin_bridge_call_register(a, n) ==
  IF a.register_func_ptr = NULL \/ a.name = NULL
    THEN Reject(-1)
    ELSE Invoke(a.register_func_ptr, <<a.name, a.info>>, n.ret)

----------------------------------------------------------------------------
(* Calling a wrapper: the arguments a caller may pass and what the host    *)
(* may answer.                                                             *)

Wrappers ==
  { "plugin_bridge_call_track_fx_get_count",
    "plugin_bridge_call_track_fx_get_name",
    "plugin_bridge_call_track_fx_get_param_count",
    "plugin_bridge_call_track_fx_get_param_name",
    "plugin_bridge_call_track_fx_get_param",
    "plugin_bridge_call_track_fx_get_param_formatted",
    "plugin_bridge_call_track_fx_set_param",
    "plugin_bridge_call_track_fx_format_param_value",
    "plugin_bridge_call_track_fx_get_parameter_step_sizes",
    "plugin_bridge_call_get_selected_track",
    "plugin_bridge_call_track_get_info_value",
    "plugin_bridge_call_get_track_name",
    "plugin_bridge_call_get_user_inputs",
    "plugin_bridge_call_show_message_box",
    "plugin_bridge_call_get_ext_state",
    "plugin_bridge_call_set_ext_state",
    "plugin_bridge_call_has_ext_state",
    "plugin_bridge_call_delete_ext_state",
    "plugin_bridge_call_undo_begin_block",
    "plugin_bridge_call_undo_begin_block2",
    "plugin_bridge_call_undo_end_block",
    "plugin_bridge_call_undo_end_block2",
    "plugin_bridge_call_show_console_msg",
    "plugin_bridge_call_register" }

Ints == 0..MaxIdx
FuncPtrs == {NULL, HostFn(1, "host_function")}
Tracks == {NULL, Track(1)}
Projects == {NULL, <<"proj", 1>>}
OutCells == {NULL, Cell(0)}
Strings(s) == {NULL, Str(s)}
Bufs == {NULL, Buf("old")}
Sizes == {-1, 0, BufSize}

\* The argument records of wrapper w.
ArgsOf(w) ==
  CASE w = "plugin_bridge_call_track_fx_get_count" ->
         [func_ptr : FuncPtrs, track : Tracks]
    [] w = "plugin_bridge_call_track_fx_get_name" ->
         [func_ptr : FuncPtrs, track : Tracks, fx_idx : Ints, buf : Bufs, buf_size : Sizes]
    [] w = "plugin_bridge_call_track_fx_get_param_count" ->
         [func_ptr : FuncPtrs, track : Tracks, fx_idx : Ints]
    [] w \in { "plugin_bridge_call_track_fx_get_param_name",
               "plugin_bridge_call_track_fx_get_param_formatted" } ->
         [func_ptr : FuncPtrs, track : Tracks, fx_idx : Ints, param_idx : Ints,
          buf : Bufs, buf_size : Sizes]
    [] w = "plugin_bridge_call_track_fx_get_param" ->
         [func_ptr : FuncPtrs, track : Tracks, fx_idx : Ints, param_idx : Ints,
          minval : OutCells, maxval : OutCells]
    [] w = "plugin_bridge_call_track_fx_set_param" ->
         [func_ptr : FuncPtrs, track : Tracks, fx_idx : Ints, param_idx : Ints,
          val : 0..MaxIdx + 1]
    [] w = "plugin_bridge_call_track_fx_format_param_value" ->
         [func_ptr : FuncPtrs, track : Tracks, fx_idx : Ints, param_idx : Ints,
          value : Ints, buf : Bufs, buf_size : Sizes]
    [] w = "plugin_bridge_call_track_fx_get_parameter_step_sizes" ->
         [func_ptr : FuncPtrs, track : Tracks, fx_idx : Ints, param_idx : Ints,
          step : OutCells, small_step : OutCells, large_step : OutCells,
          is_toggle : OutCells]
    [] w = "plugin_bridge_call_get_selected_track" ->
         [func_ptr : FuncPtrs, proj : Ints, seltrackidx : Ints]
    [] w = "plugin_bridge_call_track_get_info_value" ->
         [func_ptr : FuncPtrs, track : Tracks, param : Strings("D_VOL")]
    [] w = "plugin_bridge_call_get_track_name" ->
         [func_ptr : FuncPtrs, track : Tracks, buf : Bufs, buf_size : Sizes,
          flags : OutCells]
    [] w = "plugin_bridge_call_get_user_inputs" ->
         [func_ptr : FuncPtrs, title : Strings("title"), num_inputs : Ints,
          captions : Strings("captions"), values : Bufs, values_sz : Sizes]
    [] w = "plugin_bridge_call_show_message_box" ->
         [func_ptr : FuncPtrs, text : Strings("text"), title : Strings("title"),
          type : Ints]
    [] w \in { "plugin_bridge_call_get_ext_state", "plugin_bridge_call_has_ext_state",
               "plugin_bridge_call_delete_ext_state" } ->
         [func_ptr : FuncPtrs, section : Strings("section"), key : Strings("key")]
    [] w = "plugin_bridge_call_set_ext_state" ->
         [func_ptr : FuncPtrs, section : Strings("section"), key : Strings("key"),
          value : Strings("value"), persist : Ints]
    [] w = "plugin_bridge_call_undo_begin_block" ->
         [func_ptr : FuncPtrs]
    [] w = "plugin_bridge_call_undo_begin_block2" ->
         [func_ptr : FuncPtrs, proj : Projects]
    [] w = "plugin_bridge_call_undo_end_block" ->
         [func_ptr : FuncPtrs, description : Strings("description"), flags : Ints]
    [] w = "plugin_bridge_call_undo_end_block2" ->
         [func_ptr : FuncPtrs, proj : Projects, description : Strings("description"),
          flags : Ints]
    [] w = "plugin_bridge_call_show_console_msg" ->
         [func_ptr : FuncPtrs, message : Strings("message")]
    [] w = "plugin_bridge_call_register" ->
         [register_func_ptr : FuncPtrs, name : Strings("hookcommand"), info : OutCells]

\* What the host function behind wrapper w may answer: its return value (by
\* the host signature the wrapper casts to) and what it writes into a buffer.
NativeOf(w) ==
  CASE w \in { "plugin_bridge_call_track_fx_get_count",
               "plugin_bridge_call_track_fx_get_param_count",
               "plugin_bridge_call_track_fx_get_param",
               "plugin_bridge_call_track_get_info_value",
               "plugin_bridge_call_show_message_box",
               "plugin_bridge_call_has_ext_state",
               "plugin_bridge_call_register" } ->
         [ret : -1..MaxIdx + 1, write : {NULL}]
    [] w \in { "plugin_bridge_call_track_fx_set_param",
               "plugin_bridge_call_track_fx_get_parameter_step_sizes" } ->
         [ret : {0, 1}, write : {NULL}]
    [] w \in { "plugin_bridge_call_get_track_name",
               "plugin_bridge_call_get_user_inputs" } ->
         [ret : {0, 1}, write : {NULL, Str("new")}]
    [] w \in { "plugin_bridge_call_track_fx_get_name",
               "plugin_bridge_call_track_fx_get_param_name",
               "plugin_bridge_call_track_fx_get_param_formatted",
               "plugin_bridge_call_track_fx_format_param_value" } ->
         [ret : {Void}, write : {NULL, Str("new")}]
    [] w = "plugin_bridge_call_get_selected_track" ->
         [ret : {NULL, Track(1)}, write : {NULL}]
    [] w = "plugin_bridge_call_get_ext_state" ->
         [ret : {NULL, Str("stored")}, write : {NULL}]
    [] OTHER ->
         [ret : {Void}, write : {NULL}]

\* The wrapper named w applied to arguments a, the host answering n.
CallOf(w, a, n) ==
  CASE w = "plugin_bridge_call_track_fx_get_count" ->
         plugin_bridge_call_track_fx_get_count(a, n)
    [] w = "plugin_bridge_call_track_fx_get_name" ->
         plugin_bridge_call_track_fx_get_name(a, n)
    [] w = "plugin_bridge_call_track_fx_get_param_count" ->
         plugin_bridge_call_track_fx_get_param_count(a, n)
    [] w = "plugin_bridge_call_track_fx_get_param_name" ->
         plugin_bridge_call_track_fx_get_param_name(a, n)
    [] w = "plugin_bridge_call_track_fx_get_param" ->
         plugin_bridge_call_track_fx_get_param(a, n)
    [] w = "plugin_bridge_call_track_fx_get_param_formatted" ->
         plugin_bridge_call_track_fx_get_param_formatted(a, n)
    [] w = "plugin_bridge_call_track_fx_set_param" ->
         plugin_bridge_call_track_fx_set_param(a, n)
    [] w = "plugin_bridge_call_track_fx_format_param_value" ->
         plugin_bridge_call_track_fx_format_param_value(a, n)
    [] w = "plugin_bridge_call_track_fx_get_parameter_step_sizes" ->
         plugin_bridge_call_track_fx_get_parameter_step_sizes(a, n)
    [] w = "plugin_bridge_call_get_selected_track" ->
         plugin_bridge_call_get_selected_track(a, n)
    [] w = "plugin_bridge_call_track_get_info_value" ->
         plugin_bridge_call_track_get_info_value(a, n)
    [] w = "plugin_bridge_call_get_track_name" ->
         plugin_bridge_call_get_track_name(a, n)
    [] w = "plugin_bridge_call_get_user_inputs" ->
         plugin_bridge_call_get_user_inputs(a, n)
    [] w = "plugin_bridge_call_show_message_box" ->
         plugin_bridge_call_show_message_box(a, n)
    [] w = "plugin_bridge_call_get_ext_state" ->
         plugin_bridge_call_get_ext_state(a, n)
    [] w = "plugin_bridge_call_set_ext_state" ->
         plugin_bridge_call_set_ext_state(a, n)
    [] w = "plugin_bridge_call_has_ext_state" ->
         plugin_bridge_call_has_ext_state(a, n)
    [] w = "plugin_bridge_call_delete_ext_state" ->
         plugin_bridge_call_delete_ext_state(a, n)
    [] w = "plugin_bridge_call_undo_begin_block" ->
         plugin_bridge_call_undo_begin_block(a, n)
    [] w = "plugin_bridge_call_undo_begin_block2" ->
         plugin_bridge_call_undo_begin_block2(a, n)
    [] w = "plugin_bridge_call_undo_end_block" ->
         plugin_bridge_call_undo_end_block(a, n)
    [] w = "plugin_bridge_call_undo_end_block2" ->
         plugin_bridge_call_undo_end_block2(a, n)
    [] w = "plugin_bridge_call_show_console_msg" ->
         plugin_bridge_call_show_console_msg(a, n)
    [] w = "plugin_bridge_call_register" ->
         plugin_bridge_call_register(a, n)

\* The wrappers are pure functions of their arguments and the host's answer
\* (they neither read nor write s_GetFunc): a behaviour starts with one call
\* about to be made, its arguments and the host's answer drawn from the sets
\* above, and CallWrapper makes it.
PendingCalls ==
  UNION { { [wrapper |-> w, args |-> a, nat |-> n]
            : a \in ArgsOf(w), n \in NativeOf(w) }
          : w \in Wrappers }

InitWrappers ==
  /\ s_GetFunc = NULL
  /\ remembered = NoCall
  /\ pending \in PendingCalls
  /\ last = NoneYet

CallWrapper ==
  /\ pending # NULL
  /\ LET r == CallOf(pending.wrapper, pending.args, pending.nat) IN
       last' = [op |-> pending.wrapper, args |-> pending.args, nat |-> pending.nat,
                ret |-> r.ret, calls |-> r.calls, lookups |-> <<>>,
                buf |-> IF "buf" \in DOMAIN r THEN r.buf ELSE NULL]
  /\ pending' = NULL
  /\ UNCHANGED <<s_GetFunc, remembered>>

NextWrappers == CallWrapper

SpecWrappers == InitWrappers /\ [][NextWrappers]_vars

----------------------------------------------------------------------------
(* Batch read engine: src/src/c/api/fx.c.  An fx_param_t array is the      *)
(* pointer <<"array", slots>>, slots the sequence of the caller's records  *)
(* [name, value, min, max, formatted]; params[i] is slots[i + 1].  The     *)
(* host's behaviour during one call is the record h: h.count is what       *)
(* TrackFX_GetNumParams returns and h.items[i + 1] what the host does for  *)
(* parameter index i: the string it writes into the name buffer (NULL: it  *)
(* writes nothing), the value TrackFX_GetParam returns with the range it   *)
(* stores through the two out pointers (NULL: it stores nothing), and the  *)
(* string it writes into the formatted buffer.                             *)

Array(slots) == <<"array", slots>>

\* One native call as the host sees it.
Native(fn, args) == [fn |-> fn, args |-> args]

\* A read loop that marks the end of what it read: after the last index it
\* empties the name of the following slot when the array has one.
RECURSIVE read_params_with_sentinel(_, _, _, _)
read_params_with_sentinel(i, param_count, c, st) ==
  IF i >= param_count
  THEN IF i + 1 \in DOMAIN st.params
       THEN [st EXCEPT !.params[i + 1].name = ""]
       ELSE st
  ELSE
    LET item == c.h.items[i + 1]
        slot == st.params[i + 1]
        min  == IF item.param.range = NULL THEN 0 ELSE item.param.range[1]
        max  == IF item.param.range = NULL THEN 0 ELSE item.param.range[2]
        read == [ name      |-> IF item.name = NULL THEN slot.name ELSE item.name[2],
                  value     |-> item.param.ret,
                  min       |-> min,
                  max       |-> max,
                  formatted |-> IF item.formatted = NULL THEN slot.formatted
                                ELSE item.formatted[2] ]
    IN read_params_with_sentinel(i + 1, param_count, c,
         [ params |-> [st.params EXCEPT ![i + 1] = read],
           calls  |-> st.calls \o
             << Native(c.getParamNameFunc,
                       <<c.track, c.fx_idx, i, <<"params", i, "name">>, BufSize>>),
                Native(c.getParamFunc,
                       <<c.track, c.fx_idx, i, <<"local", "min">>, <<"local", "max">>>>),
                Native(c.getFormattedFunc,
                       <<c.track, c.fx_idx, i, <<"params", i, "formatted">>, BufSize>>) >> ])

\* A read loop that gives up on an index whose name read wrote nothing: the
\* value and formatted-text reads for that index are not made.
RECURSIVE read_params_skipping_unnamed(_, _, _, _)
read_params_skipping_unnamed(i, param_count, c, st) ==
  IF i >= param_count THEN st
  ELSE
    LET item == c.h.items[i + 1]
        slot == st.params[i + 1]
        named == Native(c.getParamNameFunc,
                        <<c.track, c.fx_idx, i, <<"params", i, "name">>, BufSize>>)
        min  == IF item.param.range = NULL THEN 0 ELSE item.param.range[1]
        max  == IF item.param.range = NULL THEN 0 ELSE item.param.range[2]
        read == [ name      |-> item.name[2],
                  value     |-> item.param.ret,
                  min       |-> min,
                  max       |-> max,
                  formatted |-> IF item.formatted = NULL THEN slot.formatted
                                ELSE item.formatted[2] ]
    IN IF item.name = NULL
       THEN read_params_skipping_unnamed(i + 1, param_count, c,
              [st EXCEPT !.calls = st.calls \o <<named>>])
       ELSE read_params_skipping_unnamed(i + 1, param_count, c,
              [ params |-> [st.params EXCEPT ![i + 1] = read],
                calls  |-> st.calls \o
                  << named,
                     Native(c.getParamFunc,
                            <<c.track, c.fx_idx, i, <<"local", "min">>, <<"local", "max">>>>),
                     Native(c.getFormattedFunc,
                            <<c.track, c.fx_idx, i, <<"params", i, "formatted">>, BufSize>>) >> ])

\* The body of `for (int i = 0; i < param_count; i++)`, from index i on.
\* c holds what the loop reads (track, fx_idx, the three resolved functions
\* and the host's behaviour); st is the array and the native calls so far.
RECURSIVE ReadParams(_, _, _, _)
ReadParams(i, param_count, c, st) ==
  IF i >= param_count THEN st
  ELSE
    LET item == c.h.items[i + 1]
        slot == st.params[i + 1]
        min  == IF item.param.range = NULL THEN 0 ELSE item.param.range[1]
        max  == IF item.param.range = NULL THEN 0 ELSE item.param.range[2]
        read == [ name      |-> IF item.name = NULL THEN slot.name ELSE item.name[2],
                  value     |-> item.param.ret,
                  min       |-> min,
                  max       |-> max,
                  formatted |-> IF item.formatted = NULL THEN slot.formatted
                                ELSE item.formatted[2] ]
    IN ReadParams(i + 1, param_count, c,
         [ params |-> [st.params EXCEPT ![i + 1] = read],
           calls  |-> st.calls \o
             << Native(c.getParamNameFunc,
                       <<c.track, c.fx_idx, i, <<"params", i, "name">>, BufSize>>),
                Native(c.getParamFunc,
                       <<c.track, c.fx_idx, i, <<"local", "min">>, <<"local", "max">>>>),
                Native(c.getFormattedFunc,
                       <<c.track, c.fx_idx, i, <<"params", i, "formatted">>, BufSize>>) >> ])

\* The batch read with two of its decisions left open, from which the
\* faulty readers below are made: empty(n) says when the native count n is
\* taken to mean "no parameters", reported(n, max) is the count stored on
\* success for a positive n.
batch_get_variant(track, fx_idx, params, max_params, out_param_count, h, empty(_), reported(_, _)) ==
  LET failed(lookups) ==
        [ret |-> 0, params |-> params, out_param_count |-> out_param_count,
         calls |-> <<>>, lookups |-> lookups]
      getFuncPtr == s_GetFunc
      names == [k \in 1..4 |-> plugin_bridge_call_get_func(getFuncPtr, Str(RequiredReadNames[k]))]
      lookups == names[1].lookups \o names[2].lookups \o names[3].lookups \o names[4].lookups
  IN
  IF track = NULL \/ params = NULL \/ out_param_count = NULL \/ max_params <= 0
       \/ getFuncPtr = NULL
  THEN failed(<<>>)
  ELSE IF \E k \in 1..4 : names[k].ret = NULL
  THEN failed(<<>>)
  ELSE
  LET counted == << Native(names[1].ret, <<track, fx_idx>>) >> IN
  IF empty(h.count)
  THEN [ret |-> 1, params |-> params, out_param_count |-> Cell(0),
        calls |-> counted, lookups |-> lookups]
  ELSE
  LET param_count == IF h.count > max_params THEN max_params ELSE h.count
      st == ReadParams(0, param_count,
              [track |-> track, fx_idx |-> fx_idx, h |-> h,
               getParamNameFunc |-> names[2].ret, getParamFunc |-> names[3].ret,
               getFormattedFunc |-> names[4].ret],
              [params |-> params[2], calls |-> counted])
  IN [ret |-> 1, params |-> Array(st.params),
      out_param_count |-> Cell(reported(h.count, max_params)),
      calls |-> st.calls, lookups |-> lookups]

\* A batch read that treats only a count of exactly 0 as "no parameters".
batch_get_zero_only(track, fx_idx, params, max_params, out_param_count, h) ==
  LET empty(n) == n = 0
      reported(n, max) == IF n > max THEN max ELSE n
  IN batch_get_variant(track, fx_idx, params, max_params, out_param_count, h, empty, reported)

\* A batch read that stores the host's count without limiting it.
batch_get_unclamped_count(track, fx_idx, params, max_params, out_param_count, h) ==
  LET empty(n) == n <= 0
      reported(n, max) == n
  IN batch_get_variant(track, fx_idx, params, max_params, out_param_count, h, empty, reported)

\* bool plugin_bridge_batch_get_fx_parameters(void* track, int fx_idx,
\*     fx_param_t* params, int max_params, int* out_param_count)
\* The result: the return value, the array and *out_param_count as the call
\* leaves them, the native calls and the bootstrap lookups it made.
plugin_bridge_batch_get_fx_parameters(track, fx_idx, params, max_params, out_param_count, h) ==
  LET failed(lookups) ==
        [ret |-> 0, params |-> params, out_param_count |-> out_param_count,
         calls |-> <<>>, lookups |-> lookups]
  IN
  IF track = NULL \/ params = NULL \/ out_param_count = NULL \/ max_params <= 0
  THEN failed(<<>>)
  ELSE
  LET getFuncPtr == plugin_bridge_get_get_func IN
  IF getFuncPtr = NULL THEN failed(<<>>)
  ELSE
  LET count == plugin_bridge_call_get_func(getFuncPtr, Str("TrackFX_GetNumParams")) IN
  IF count.ret = NULL THEN failed(count.lookups)
  ELSE
  LET name == plugin_bridge_call_get_func(getFuncPtr, Str("TrackFX_GetParamName")) IN
  IF name.ret = NULL THEN failed(count.lookups \o name.lookups)
  ELSE
  LET param == plugin_bridge_call_get_func(getFuncPtr, Str("TrackFX_GetParam")) IN
  IF param.ret = NULL THEN failed(count.lookups \o name.lookups \o param.lookups)
  ELSE
  LET formatted == plugin_bridge_call_get_func(getFuncPtr, Str("TrackFX_GetFormattedParamValue"))
      lookups == count.lookups \o name.lookups \o param.lookups \o formatted.lookups
  IN
  IF formatted.ret = NULL THEN failed(lookups)
  ELSE
  LET counted == << Native(count.ret, <<track, fx_idx>>) >> IN
  IF h.count <= 0
  THEN [ret |-> 1, params |-> params, out_param_count |-> Cell(0),
        calls |-> counted, lookups |-> lookups]
  ELSE
  LET param_count == IF h.count > max_params THEN max_params ELSE h.count
      st == ReadParams(0, param_count,
              [track |-> track, fx_idx |-> fx_idx, h |-> h,
               getParamNameFunc |-> name.ret, getParamFunc |-> param.ret,
               getFormattedFunc |-> formatted.ret],
              [params |-> params[2], calls |-> counted])
  IN [ret |-> 1, params |-> Array(st.params), out_param_count |-> Cell(param_count),
      calls |-> st.calls, lookups |-> lookups]

----------------------------------------------------------------------------
(* Batch apply engine: src/src/c/api/fx.c.  A change list is the pointer   *)
(* <<"array", changes>>, changes[i + 1] the record changes[i] of the C     *)
(* code.  The host's behaviour is h.results: h.results[i + 1] is what      *)
(* TrackFX_SetParam returns when it is called for change i.                *)

\* A loop that gives up at the first change the host refuses.
RECURSIVE apply_changes_fail_fast(_, _, _, _)
apply_changes_fail_fast(i, change_count, c, st) ==
  IF i >= change_count \/ st.all_success = 0 THEN st
  ELSE
    LET change == c.changes[i + 1]
        set == plugin_bridge_call_track_fx_set_param(
                 [func_ptr |-> c.setParamFunc, track |-> c.track,
                  fx_idx |-> change.fx_index, param_idx |-> change.param_index,
                  val |-> change.value],
                 [ret |-> c.h.results[i + 1], write |-> NULL])
    IN apply_changes_fail_fast(i + 1, change_count, c,
         [ all_success |-> IF set.ret = 0 THEN 0 ELSE st.all_success,
           calls |-> st.calls \o set.calls ])

\* A loop whose result is the success of the change it applied last.
RECURSIVE apply_changes_last_wins(_, _, _, _)
apply_changes_last_wins(i, change_count, c, st) ==
  IF i >= change_count THEN st
  ELSE
    LET change == c.changes[i + 1]
        set == plugin_bridge_call_track_fx_set_param(
                 [func_ptr |-> c.setParamFunc, track |-> c.track,
                  fx_idx |-> change.fx_index, param_idx |-> change.param_index,
                  val |-> change.value],
                 [ret |-> c.h.results[i + 1], write |-> NULL])
    IN apply_changes_last_wins(i + 1, change_count, c,
         [ all_success |-> set.ret, calls |-> st.calls \o set.calls ])

\* The body of `for (int i = 0; i < change_count; i++)` of the batch apply,
\* from index i on; st is all_success and the native calls so far.
RECURSIVE ApplyChanges(_, _, _, _)
ApplyChanges(i, change_count, c, st) ==
  IF i >= change_count THEN st
  ELSE
    LET change == c.changes[i + 1]
        set == plugin_bridge_call_track_fx_set_param(
                 [func_ptr |-> c.setParamFunc, track |-> c.track,
                  fx_idx |-> change.fx_index, param_idx |-> change.param_index,
                  val |-> change.value],
                 [ret |-> c.h.results[i + 1], write |-> NULL])
    IN ApplyChanges(i + 1, change_count, c,
         [ all_success |-> IF set.ret = 0 THEN 0 ELSE st.all_success,
           calls |-> st.calls \o set.calls ])

\* A batch apply that resolves TrackFX_SetParam anew for every change.
batch_set_resolving_per_change(track, changes, change_count, h) ==
  LET setParam == plugin_bridge_call_get_func(s_GetFunc, Str("TrackFX_SetParam"))
      again[i \in 0..change_count] ==
        IF i = 0 THEN <<>> ELSE again[i - 1] \o setParam.lookups
  IN
  IF track = NULL \/ changes = NULL \/ change_count <= 0 \/ setParam.ret = NULL
  THEN [ret |-> 0, calls |-> <<>>, lookups |-> <<>>]
  ELSE
  LET st == ApplyChanges(0, change_count,
              [track |-> track, changes |-> changes[2], h |-> h,
               setParamFunc |-> setParam.ret],
              [all_success |-> 1, calls |-> <<>>])
  IN [ret |-> st.all_success, calls |-> st.calls, lookups |-> again[change_count]]

\* bool plugin_bridge_batch_set_fx_parameters(void* track,
\*     fx_param_change_t* changes, int change_count)
plugin_bridge_batch_set_fx_parameters(track, changes, change_count, h) ==
  LET failed(lookups) == [ret |-> 0, calls |-> <<>>, lookups |-> lookups] IN
  IF track = NULL \/ changes = NULL \/ change_count <= 0
  THEN failed(<<>>)
  ELSE
  LET getFuncPtr == plugin_bridge_get_get_func IN
  IF getFuncPtr = NULL THEN failed(<<>>)
  ELSE
  LET setParam == plugin_bridge_call_get_func(getFuncPtr, Str("TrackFX_SetParam")) IN
  IF setParam.ret = NULL THEN failed(setParam.lookups)
  ELSE
  LET st == ApplyChanges(0, change_count,
              [track |-> track, changes |-> changes[2], h |-> h,
               setParamFunc |-> setParam.ret],
              [all_success |-> 1, calls |-> <<>>])
  IN [ret |-> st.all_success, calls |-> st.calls, lookups |-> setParam.lookups]

----------------------------------------------------------------------------
(* Batch format engine: src/src/c/api/fx.c.  A request list is the pointer *)
(* <<"array", params>> of fx_param_format_t records.  The host's behaviour *)
(* is h.writes: h.writes[i + 1] is the string TrackFX_FormatParamValue     *)
(* writes into the buffer of request i (NULL: it writes nothing).          *)

\* The body of `for (int i = 0; i < param_count; i++)` of the batch format,
\* from index i on; st is the request list and the native calls so far.
RECURSIVE FormatParams(_, _, _, _)
FormatParams(i, param_count, c, st) ==
  IF i >= param_count THEN st
  ELSE
    LET request == st.params[i + 1]
        format == plugin_bridge_call_track_fx_format_param_value(
                    [func_ptr |-> c.formatValueFunc, track |-> c.track,
                     fx_idx |-> request.fx_index, param_idx |-> request.param_index,
                     value |-> request.value,
                     buf |-> Buf(request.formatted), buf_size |-> BufSize],
                    [ret |-> Void, write |-> c.h.writes[i + 1]])
    IN FormatParams(i + 1, param_count, c,
         [ params |-> [st.params EXCEPT ![i + 1].formatted = format.buf[2]],
           calls  |-> st.calls \o format.calls ])

\* A batch format that reports failure when a request's text was not produced.
batch_format_fails_on_miss(track, params, param_count, h) ==
  LET failed == [ret |-> 0, params |-> params, calls |-> <<>>, lookups |-> <<>>]
      formatValue == plugin_bridge_call_get_func(s_GetFunc, Str("TrackFX_FormatParamValue"))
  IN
  IF track = NULL \/ params = NULL \/ param_count <= 0 \/ formatValue.ret = NULL
  THEN failed
  ELSE
  LET st == FormatParams(0, param_count,
              [track |-> track, h |-> h, formatValueFunc |-> formatValue.ret],
              [params |-> params[2], calls |-> <<>>])
  IN [ret |-> IF \E i \in 1..param_count : h.writes[i] = NULL THEN 0 ELSE 1,
      params |-> Array(st.params), calls |-> st.calls, lookups |-> formatValue.lookups]

\* bool plugin_bridge_batch_format_fx_parameters(void* track,
\*     fx_param_format_t* params, int param_count)
plugin_bridge_batch_format_fx_parameters(track, params, param_count, h) ==
  LET failed(lookups) ==
        [ret |-> 0, params |-> params, calls |-> <<>>, lookups |-> lookups]
  IN
  IF track = NULL \/ params = NULL \/ param_count <= 0
  THEN failed(<<>>)
  ELSE
  LET getFuncPtr == plugin_bridge_get_get_func IN
  IF getFuncPtr = NULL THEN failed(<<>>)
  ELSE
  LET formatValue == plugin_bridge_call_get_func(getFuncPtr, Str("TrackFX_FormatParamValue")) IN
  IF formatValue.ret = NULL THEN failed(formatValue.lookups)
  ELSE
  LET st == FormatParams(0, param_count,
              [track |-> track, h |-> h, formatValueFunc |-> formatValue.ret],
              [params |-> params[2], calls |-> <<>>])
  IN [ret |-> 1, params |-> Array(st.params), calls |-> st.calls,
      lookups |-> formatValue.lookups]

----------------------------------------------------------------------------
(* Multi-track batch read: src/src/c/api/fx.c.  The C arrays tracks,       *)
(* fx_indices, fx_counts, param_buffers and param_counts are pointers      *)
(* <<"array", seq>>; element [k] of the C array is seq[k + 1].  The result *)
(* table (param_buffers, param_counts) has as many entries as the caller   *)
(* allocated.  The host's behaviour is h: h.counts[t + 1][f + 1] is what   *)
(* TrackFX_GetNumParams returns for FX f of track t, h.item what the host  *)
(* does for every parameter index it is asked about.  stores lists the     *)
(* entries of the table the call stored to, in order; stray those of them  *)
(* that lie outside the caller's table (undefined behaviour in C).         *)

\* int buffer_idx = 0; for (i = 0; i < t; i++) buffer_idx += fx_counts[i];
RECURSIVE SumBefore(_, _)
SumBefore(fx_counts, t) ==
  IF t <= 0 THEN 0 ELSE SumBefore(fx_counts, t - 1) + fx_counts[t]

\* An index computation that forgets the FX's own position f.
buffer_idx_per_track(fx_counts, t, f) == SumBefore(fx_counts, t)

\* What lies at an address outside the caller's table.
WildParams(n) ==
  [p \in 1..n |-> [name |-> "wild", value |-> 0, min |-> 0, max |-> 0, formatted |-> "wild"]]

\* buffer_idx for FX f of track t
BufferIdx(fx_counts, t, f) == SumBefore(fx_counts, t) + f

InTable(table, idx) == idx \in 0..(Len(table) - 1)

\* The body of `for (int f = 0; f < fx_count; f++)` for track t, from f on.
RECURSIVE MultiReadFx(_, _, _, _)
MultiReadFx(f, t, c, st) ==
  IF f >= c.fx_counts[t + 1] THEN st
  ELSE
    LET track == c.tracks[t + 1]
        fx_idx == c.fx_indices[t + 1][2][f + 1]
        buffer_idx == BufferIdx(c.fx_counts, t, f)
        counted == Native(c.getParamCountFunc, <<track, fx_idx>>)
        param_count == c.h.counts[t + 1][f + 1]
        inside == InTable(st.param_counts, buffer_idx)
        stray == IF inside THEN st.stray ELSE Append(st.stray, buffer_idx)
    IN
    IF param_count <= 0
    THEN MultiReadFx(f + 1, t, c,
           [st EXCEPT
              !.param_counts = IF inside THEN [@ EXCEPT ![buffer_idx + 1] = 0] ELSE @,
              !.calls = Append(@, counted),
              !.stores = Append(@, [t |-> t, f |-> f, idx |-> buffer_idx, count |-> 0]),
              !.stray = stray])
    ELSE
    LET read == ReadParams(0, param_count,
                  [track |-> track, fx_idx |-> fx_idx,
                   h |-> [items |-> [p \in 1..param_count |-> c.h.item]],
                   getParamNameFunc |-> c.getParamNameFunc,
                   getParamFunc |-> c.getParamFunc,
                   getFormattedFunc |-> c.getFormattedFunc],
                  [params |-> IF inside THEN st.param_buffers[buffer_idx + 1]
                              ELSE WildParams(param_count),
                   calls |-> Append(st.calls, counted)])
    IN MultiReadFx(f + 1, t, c,
         [st EXCEPT
            !.param_buffers = IF inside THEN [@ EXCEPT ![buffer_idx + 1] = read.params] ELSE @,
            !.param_counts = IF inside THEN [@ EXCEPT ![buffer_idx + 1] = param_count] ELSE @,
            !.calls = read.calls,
            !.stores = Append(@, [t |-> t, f |-> f, idx |-> buffer_idx, count |-> param_count]),
            !.stray = stray])

\* The body of `for (int t = 0; t < track_count; t++)`, from t on.
RECURSIVE MultiReadTracks(_, _, _, _)
MultiReadTracks(t, track_count, c, st) ==
  IF t >= track_count THEN st
  ELSE IF c.tracks[t + 1] = NULL \/ c.fx_counts[t + 1] <= 0
    THEN MultiReadTracks(t + 1, track_count, c, st)
    ELSE MultiReadTracks(t + 1, track_count, c, MultiReadFx(0, t, c, st))

\* bool plugin_bridge_batch_get_multi_track_fx_parameters(void** tracks,
\*     int track_count, int** fx_indices, int* fx_counts,
\*     fx_param_t** param_buffers, int* param_counts)
plugin_bridge_batch_get_multi_track_fx_parameters(tracks, track_count, fx_indices, fx_counts, param_buffers, param_counts, h) ==
  LET failed(lookups) ==
        [ret |-> 0, param_buffers |-> param_buffers, param_counts |-> param_counts,
         calls |-> <<>>, lookups |-> lookups, stores |-> <<>>, stray |-> <<>>]
  IN
  IF tracks = NULL \/ track_count <= 0 \/ fx_indices = NULL \/ fx_counts = NULL
       \/ param_buffers = NULL \/ param_counts = NULL
  THEN failed(<<>>)
  ELSE
  LET getFuncPtr == plugin_bridge_get_get_func IN
  IF getFuncPtr = NULL THEN failed(<<>>)
  ELSE
  LET count == plugin_bridge_call_get_func(getFuncPtr, Str("TrackFX_GetNumParams")) IN
  IF count.ret = NULL THEN failed(count.lookups)
  ELSE
  LET name == plugin_bridge_call_get_func(getFuncPtr, Str("TrackFX_GetParamName")) IN
  IF name.ret = NULL THEN failed(count.lookups \o name.lookups)
  ELSE
  LET param == plugin_bridge_call_get_func(getFuncPtr, Str("TrackFX_GetParam")) IN
  IF param.ret = NULL THEN failed(count.lookups \o name.lookups \o param.lookups)
  ELSE
  LET formatted == plugin_bridge_call_get_func(getFuncPtr, Str("TrackFX_GetFormattedParamValue"))
      lookups == count.lookups \o name.lookups \o param.lookups \o formatted.lookups
  IN
  IF formatted.ret = NULL THEN failed(lookups)
  ELSE
  LET st == MultiReadTracks(0, track_count,
              [tracks |-> tracks[2], fx_indices |-> fx_indices[2],
               fx_counts |-> fx_counts[2], h |-> h,
               getParamCountFunc |-> count.ret, getParamNameFunc |-> name.ret,
               getParamFunc |-> param.ret, getFormattedFunc |-> formatted.ret],
              [param_buffers |-> param_buffers[2], param_counts |-> param_counts[2],
               calls |-> <<>>, stores |-> <<>>, stray |-> <<>>])
  IN [ret |-> 1, param_buffers |-> Array(st.param_buffers),
      param_counts |-> Array(st.param_counts),
      calls |-> st.calls, lookups |-> lookups, stores |-> st.stores, stray |-> st.stray]

----------------------------------------------------------------------------
(* Multi-track batch format: src/src/c/api/fx.c.  Each request carries the *)
(* index track_index of its track in the tracks array.  h.writes[i + 1] is *)
(* the string the host writes for request i (NULL: nothing).  st.ret is    *)
(* NULL while the loop runs and the return value once it has returned.     *)

\* The body of `for (int i = 0; i < param_count; i++)` of the multi-track
\* format, from index i on.
RECURSIVE FormatMultiParams(_, _, _, _)
FormatMultiParams(i, param_count, c, st) ==
  IF i >= param_count THEN [st EXCEPT !.ret = 1]
  ELSE
    LET request == st.params[i + 1]
        track_idx == request.track_index
    IN
    IF track_idx < 0 \/ c.tracks[track_idx + 1] = NULL
    THEN [st EXCEPT !.ret = 0]
    ELSE
    LET format == plugin_bridge_call_track_fx_format_param_value(
                    [func_ptr |-> c.formatValueFunc, track |-> c.tracks[track_idx + 1],
                     fx_idx |-> request.fx_index, param_idx |-> request.param_index,
                     value |-> request.value,
                     buf |-> Buf(request.formatted), buf_size |-> BufSize],
                    [ret |-> Void, write |-> c.h.writes[i + 1]])
    IN FormatMultiParams(i + 1, param_count, c,
         [ ret    |-> st.ret,
           params |-> [st.params EXCEPT ![i + 1].formatted = format.buf[2]],
           calls  |-> st.calls \o format.calls ])

\* bool plugin_bridge_batch_format_multi_fx_parameters(void** tracks,
\*     fx_param_format_t* params, int param_count)
plugin_bridge_batch_format_multi_fx_parameters(tracks, params, param_count, h) ==
  LET failed(lookups) ==
        [ret |-> 0, params |-> params, calls |-> <<>>, lookups |-> lookups]
  IN
  IF tracks = NULL \/ params = NULL \/ param_count <= 0
  THEN failed(<<>>)
  ELSE
  LET getFuncPtr == plugin_bridge_get_get_func IN
  IF getFuncPtr = NULL THEN failed(<<>>)
  ELSE
  LET formatValue == plugin_bridge_call_get_func(getFuncPtr, Str("TrackFX_FormatParamValue")) IN
  IF formatValue.ret = NULL THEN failed(formatValue.lookups)
  ELSE
  LET st == FormatMultiParams(0, param_count,
              [tracks |-> tracks[2], h |-> h, formatValueFunc |-> formatValue.ret],
              [ret |-> NULL, params |-> params[2], calls |-> <<>>])
  IN [ret |-> st.ret, params |-> Array(st.params), calls |-> st.calls,
      lookups |-> formatValue.lookups]

----------------------------------------------------------------------------
(* Multi-track batch apply: src/src/c/api/fx.c.  Each change carries the   *)
(* index track_index of its track in the tracks array.  h.results[i + 1]   *)
(* is what TrackFX_SetParam returns if it is called for change i.          *)

\* A multi-track apply loop that stops at the first change whose track index
\* is negative or whose track is NULL.
RECURSIVE apply_multi_changes_stop_at_invalid(_, _, _, _)
apply_multi_changes_stop_at_invalid(i, change_count, c, st) ==
  IF i >= change_count THEN st
  ELSE
    LET change == c.changes[i + 1]
        track_idx == change.track_index
    IN
    IF track_idx < 0 \/ c.tracks[track_idx + 1] = NULL
    THEN [st EXCEPT !.all_success = 0]
    ELSE
    LET set == plugin_bridge_call_track_fx_set_param(
                 [func_ptr |-> c.setParamFunc, track |-> c.tracks[track_idx + 1],
                  fx_idx |-> change.fx_index, param_idx |-> change.param_index,
                  val |-> change.value],
                 [ret |-> c.h.results[i + 1], write |-> NULL])
    IN apply_multi_changes_stop_at_invalid(i + 1, change_count, c,
         [ all_success |-> IF set.ret = 0 THEN 0 ELSE st.all_success,
           calls |-> st.calls \o set.calls ])

\* The body of `for (int i = 0; i < change_count; i++)` of the multi-track
\* apply, from index i on.
RECURSIVE ApplyMultiChanges(_, _, _, _)
ApplyMultiChanges(i, change_count, c, st) ==
  IF i >= change_count THEN st
  ELSE
    LET change == c.changes[i + 1]
        track_idx == change.track_index
    IN
    IF track_idx < 0 \/ c.tracks[track_idx + 1] = NULL
    THEN ApplyMultiChanges(i + 1, change_count, c, [st EXCEPT !.all_success = 0])
    ELSE
    LET set == plugin_bridge_call_track_fx_set_param(
                 [func_ptr |-> c.setParamFunc, track |-> c.tracks[track_idx + 1],
                  fx_idx |-> change.fx_index, param_idx |-> change.param_index,
                  val |-> change.value],
                 [ret |-> c.h.results[i + 1], write |-> NULL])
    IN ApplyMultiChanges(i + 1, change_count, c,
         [ all_success |-> IF set.ret = 0 THEN 0 ELSE st.all_success,
           calls |-> st.calls \o set.calls ])

\* bool plugin_bridge_batch_set_multi_track_fx_parameters(void** tracks,
\*     fx_param_multi_change_t* changes, int change_count)
plugin_bridge_batch_set_multi_track_fx_parameters(tracks, changes, change_count, h) ==
  LET failed(lookups) == [ret |-> 0, calls |-> <<>>, lookups |-> lookups] IN
  IF tracks = NULL \/ changes = NULL \/ change_count <= 0
  THEN failed(<<>>)
  ELSE
  LET getFuncPtr == plugin_bridge_get_get_func IN
  IF getFuncPtr = NULL THEN failed(<<>>)
  ELSE
  LET setParam == plugin_bridge_call_get_func(getFuncPtr, Str("TrackFX_SetParam")) IN
  IF setParam.ret = NULL THEN failed(setParam.lookups)
  ELSE
  LET st == ApplyMultiChanges(0, change_count,
              [tracks |-> tracks[2], changes |-> changes[2], h |-> h,
               setParamFunc |-> setParam.ret],
              [all_success |-> 1, calls |-> <<>>])
  IN [ret |-> st.all_success, calls |-> st.calls, lookups |-> setParam.lookups]

----------------------------------------------------------------------------
(* Calling a batch engine: the caller's arguments and the host's conduct. *)

\* A slot of the caller's array as it is before the call.
StaleParam ==
  [name |-> "stale", value |-> -1, min |-> -1, max |-> -1, formatted |-> "stale"]

\* The caller's array: NULL, or MaxParams slots holding earlier content.
ParamArrays == {NULL, Array([k \in 1..MaxParams |-> StaleParam])}

\* The caller's count cell: NULL, or an int holding an earlier value.
CountCells == {NULL, Cell(7)}

\* What the host may do for one parameter index.
ItemAnswers ==
  [ name      : {NULL, Str("gain")},
    param     : { [ret |-> 0, range |-> NULL], [ret |-> 2, range |-> <<1, 3>>] },
    formatted : {NULL, Str("2 dB")} ]

\* The host is asked about indices 0 .. min(count, max_params) - 1 at most.
HostAnswers(max_params) ==
  UNION { { [count |-> n, items |-> items]
            : items \in [1..(IF n > max_params THEN max_params ELSE n) -> ItemAnswers] }
          : n \in -1..(MaxParams + 1) }

BatchGetArgs ==
  [ track : Tracks, fx_idx : Ints, params : ParamArrays,
    max_params : -1..MaxParams, out_param_count : CountCells ]

\* The host is drawn in full for the calls that can reach it; a call with a
\* NULL argument meets a host without parameters.
PendingBatchGets ==
  UNION { { [wrapper |-> "plugin_bridge_batch_get_fx_parameters", args |-> a, h |-> h]
            : h \in IF a.track = NULL \/ a.params = NULL \/ a.out_param_count = NULL
                      THEN {[count |-> 0, items |-> <<>>]}
                      ELSE HostAnswers(a.max_params) }
          : a \in BatchGetArgs }

\* The caller's change list: NULL, or MaxChanges changes to one effect.
ChangeArrays ==
  {NULL} \cup
  { Array([k \in 1..MaxChanges |-> [fx_index |-> f, param_index |-> k - 1, value |-> k]])
    : f \in Ints }

\* The host accepts (1) or refuses (0) each change it is asked to apply.
SetAnswers(change_count) == { [results |-> r] : r \in [1..change_count -> {0, 1}] }

BatchSetArgs ==
  [ track : Tracks, changes : ChangeArrays, change_count : -1..MaxChanges ]

PendingBatchSets ==
  UNION { { [wrapper |-> "plugin_bridge_batch_set_fx_parameters", args |-> a, h |-> h]
            : h \in SetAnswers(a.change_count) }
          : a \in BatchSetArgs }

\* The caller's format requests: NULL, or MaxChanges requests whose text
\* buffers hold earlier content.
FormatArrays ==
  {NULL} \cup
  { Array([k \in 1..MaxChanges |->
             [fx_index |-> f, param_index |-> k - 1, value |-> k, formatted |-> "stale"]])
    : f \in Ints }

\* For each request the host writes a text or writes nothing.
FormatAnswers(param_count) ==
  { [writes |-> w] : w \in [1..param_count -> {NULL, Str("2 dB")}] }

BatchFormatArgs ==
  [ track : Tracks, params : FormatArrays, param_count : -1..MaxChanges ]

PendingBatchFormats ==
  UNION { { [wrapper |-> "plugin_bridge_batch_format_fx_parameters", args |-> a, h |-> h]
            : h \in FormatAnswers(a.param_count) }
          : a \in BatchFormatArgs }

\* The caller's arrays for a multi-track read of n tracks whose handles
\* are tracks and whose FX counts are fx_counts: the FX of track t are
\* numbered 1, 2, ..., and the result table has one entry, holding earlier
\* content, for each FX the caller announced with a positive count.
MultiGetArgs(n, tracks, fx_counts) ==
  LET pos(k) == IF k > 0 THEN k ELSE 0
      size[t \in 0..n] == IF t = 0 THEN 0 ELSE size[t - 1] + pos(fx_counts[t])
  IN [ tracks |-> Array(tracks), track_count |-> n,
       fx_indices |-> Array([t \in 1..n |-> Array([f \in 1..pos(fx_counts[t]) |-> f])]),
       fx_counts |-> Array(fx_counts),
       param_buffers |-> Array([k \in 1..size[n] |-> [p \in 1..MaxParams |-> StaleParam]]),
       param_counts |-> Array([k \in 1..size[n] |-> 7]) ]

ValidMultiGetArgs ==
  UNION { { MultiGetArgs(n, tracks, fx_counts)
            : tracks \in { [t \in 1..n |-> IF t \in live THEN Track(t) ELSE NULL]
                             : live \in SUBSET (1..n) },
              fx_counts \in [1..n -> {-1, 0, 1, 2}] }
          : n \in 1..MaxTracks }

\* One valid call, and the ways of spoiling one argument of it.
InvalidMultiGetArgs ==
  LET a == MultiGetArgs(1, <<Track(1)>>, <<1>>) IN
  { [a EXCEPT !.tracks = NULL], [a EXCEPT !.track_count = 0],
    [a EXCEPT !.track_count = -1], [a EXCEPT !.fx_indices = NULL],
    [a EXCEPT !.fx_counts = NULL], [a EXCEPT !.param_buffers = NULL],
    [a EXCEPT !.param_counts = NULL] }

\* The host is asked for the parameter count of each announced FX of each
\* non-null track, and treats every parameter index alike.
MultiGetAnswers(a) ==
  LET asked(t) == IF a.tracks = NULL \/ a.fx_counts = NULL \/ a.track_count <= 0 THEN 0
                  ELSE IF a.tracks[2][t] = NULL \/ a.fx_counts[2][t] <= 0 THEN 0
                  ELSE a.fx_counts[2][t]
      n == IF a.track_count > 0 THEN a.track_count ELSE 0
      all == [t \in 1..n |-> [1..asked(t) -> {-1, 0, MaxParams}]]
      Tuples == { c \in [1..n -> UNION { all[t] : t \in 1..n }] :
                    \A t \in 1..n : c[t] \in all[t] }
  IN { [counts |-> c, item |-> item]
       : c \in Tuples,
         item \in { [name |-> Str("gain"), param |-> [ret |-> 2, range |-> <<1, 3>>],
                     formatted |-> Str("2 dB")] } }

PendingMultiGets ==
  UNION { { [wrapper |-> "plugin_bridge_batch_get_multi_track_fx_parameters",
             args |-> a, h |-> h]
            : h \in MultiGetAnswers(a) }
          : a \in ValidMultiGetArgs \cup InvalidMultiGetArgs }

\* The caller's track array: MaxTracks handles, any of them NULL.
TrackArrays ==
  {NULL} \cup
  { Array([t \in 1..MaxTracks |-> IF t \in live THEN Track(t) ELSE NULL])
    : live \in SUBSET (1..MaxTracks) }

\* The track indices a request may carry: a negative one, or a position of
\* the track array.
TrackIndexes == -1..(MaxTracks - 1)

\* The caller's multi-track format requests: NULL, or n requests (at most
\* as many as there are tracks) whose text
\* buffers hold earlier content.
MultiFormatArrays(n) ==
  {NULL} \cup
  { Array([k \in 1..n |->
             [track_index |-> track_index[k], fx_index |-> 0, param_index |-> k - 1,
              value |-> k, formatted |-> "stale"]])
    : track_index \in [1..n -> TrackIndexes] }

\* The host writes a text for every request it is asked about, or for none.
MultiFormatAnswers(param_count) ==
  { [writes |-> [i \in 1..param_count |-> w]] : w \in {NULL, Str("2 dB")} }

PendingMultiFormats ==
  UNION { { [wrapper |-> "plugin_bridge_batch_format_multi_fx_parameters",
             args |-> [tracks |-> tracks, params |-> params, param_count |-> n],
             h |-> h]
            : tracks \in TrackArrays,
              params \in MultiFormatArrays(IF n > 0 THEN n ELSE 0),
              h \in MultiFormatAnswers(n) }
          : n \in -1..MaxTracks }

\* The caller's multi-track change list: NULL, or n changes (the lists tried
\* are at most as long as the track array).
MultiChangeArrays(n) ==
  {NULL} \cup
  { Array([k \in 1..n |->
             [track_index |-> track_index[k], fx_index |-> 0, param_index |-> k - 1,
              value |-> k]])
    : track_index \in [1..n -> TrackIndexes] }

\* The host accepts every change it is asked to apply, or refuses every one.
MultiSetAnswers(change_count) ==
  { [results |-> [i \in 1..change_count |-> r]] : r \in {0, 1} }

PendingMultiSets ==
  UNION { { [wrapper |-> "plugin_bridge_batch_set_multi_track_fx_parameters",
             args |-> [tracks |-> tracks, changes |-> changes, change_count |-> n],
             h |-> h]
            : tracks \in TrackArrays,
              changes \in MultiChangeArrays(IF n > 0 THEN n ELSE 0),
              h \in MultiSetAnswers(n) }
          : n \in -1..MaxTracks }

\* Every batch call a caller may be about to make.
PendingBatchCalls ==
  PendingBatchGets \cup PendingBatchSets \cup PendingBatchFormats
    \cup PendingMultiGets \cup PendingMultiFormats \cup PendingMultiSets

InitBatch ==
  /\ s_GetFunc = NULL
  /\ remembered = NoCall
  /\ pending \in PendingBatchCalls
  /\ last = NoneYet

\* The caller makes its batch read against whatever handle is stored.
BatchGet ==
  /\ pending # NULL
  /\ pending.wrapper = "plugin_bridge_batch_get_fx_parameters"
  /\ LET a == pending.args
         r == plugin_bridge_batch_get_fx_parameters(
                a.track, a.fx_idx, a.params, a.max_params, a.out_param_count, pending.h)
     IN last' = [op |-> pending.wrapper, args |-> a, h |-> pending.h,
                 boot |-> s_GetFunc, ret |-> r.ret, params |-> r.params,
                 out_param_count |-> r.out_param_count,
                 calls |-> r.calls, lookups |-> r.lookups]
  /\ pending' = NULL
  /\ UNCHANGED <<s_GetFunc, remembered>>

\* The caller applies its change list against whatever handle is stored.
BatchSet ==
  /\ pending # NULL
  /\ pending.wrapper = "plugin_bridge_batch_set_fx_parameters"
  /\ LET a == pending.args
         r == plugin_bridge_batch_set_fx_parameters(
                a.track, a.changes, a.change_count, pending.h)
     IN last' = [op |-> pending.wrapper, args |-> a, h |-> pending.h,
                 boot |-> s_GetFunc, ret |-> r.ret,
                 calls |-> r.calls, lookups |-> r.lookups]
  /\ pending' = NULL
  /\ UNCHANGED <<s_GetFunc, remembered>>

\* The caller has its requests formatted against whatever handle is stored.
BatchFormat ==
  /\ pending # NULL
  /\ pending.wrapper = "plugin_bridge_batch_format_fx_parameters"
  /\ LET a == pending.args
         r == plugin_bridge_batch_format_fx_parameters(
                a.track, a.params, a.param_count, pending.h)
     IN last' = [op |-> pending.wrapper, args |-> a, h |-> pending.h,
                 boot |-> s_GetFunc, ret |-> r.ret, params |-> r.params,
                 calls |-> r.calls, lookups |-> r.lookups]
  /\ pending' = NULL
  /\ UNCHANGED <<s_GetFunc, remembered>>

\* The caller reads several tracks at once.  A store outside the caller's
\* table is undefined behaviour: the call may then come back with either
\* result (or not in a state this model describes).
BatchGetMulti ==
  /\ pending # NULL
  /\ pending.wrapper = "plugin_bridge_batch_get_multi_track_fx_parameters"
  /\ LET a == pending.args
         r == plugin_bridge_batch_get_multi_track_fx_parameters(
                a.tracks, a.track_count, a.fx_indices, a.fx_counts,
                a.param_buffers, a.param_counts, pending.h)
     IN \E ret \in (IF r.stray = <<>> THEN {r.ret} ELSE {0, 1}) :
          last' = [op |-> pending.wrapper, args |-> a, h |-> pending.h,
                   boot |-> s_GetFunc, ret |-> ret,
                   param_buffers |-> r.param_buffers, param_counts |-> r.param_counts,
                   calls |-> r.calls, lookups |-> r.lookups,
                   stores |-> r.stores, stray |-> r.stray]
  /\ pending' = NULL
  /\ UNCHANGED <<s_GetFunc, remembered>>

\* The caller has requests on several tracks formatted.
BatchFormatMulti ==
  /\ pending # NULL
  /\ pending.wrapper = "plugin_bridge_batch_format_multi_fx_parameters"
  /\ LET a == pending.args
         r == plugin_bridge_batch_format_multi_fx_parameters(
                a.tracks, a.params, a.param_count, pending.h)
     IN last' = [op |-> pending.wrapper, args |-> a, h |-> pending.h,
                 boot |-> s_GetFunc, ret |-> r.ret, params |-> r.params,
                 calls |-> r.calls, lookups |-> r.lookups]
  /\ pending' = NULL
  /\ UNCHANGED <<s_GetFunc, remembered>>

\* The caller applies changes on several tracks.
BatchSetMulti ==
  /\ pending # NULL
  /\ pending.wrapper = "plugin_bridge_batch_set_multi_track_fx_parameters"
  /\ LET a == pending.args
         r == plugin_bridge_batch_set_multi_track_fx_parameters(
                a.tracks, a.changes, a.change_count, pending.h)
     IN last' = [op |-> pending.wrapper, args |-> a, h |-> pending.h,
                 boot |-> s_GetFunc, ret |-> r.ret,
                 calls |-> r.calls, lookups |-> r.lookups]
  /\ pending' = NULL
  /\ UNCHANGED <<s_GetFunc, remembered>>

NextBatch ==
  \/ SetGetFunc
  \/ BatchGet \/ BatchSet \/ BatchFormat
  \/ BatchGetMulti \/ BatchFormatMulti \/ BatchSetMulti

SpecBatch == InitBatch /\ [][NextBatch]_vars

----------------------------------------------------------------------------
(* The batch engines one statement group at a time.  A batch call runs on  *)
(* its caller's thread while plugin_bridge_set_get_func may run on another *)
(* thread between any two of its steps.  pending is the call being made;   *)
(* remembered holds the running call's locals (NoCall while none runs):    *)
(* pc, the next statement group; getFuncPtr, the local of that name;       *)
(* reads, how often the call has read s_GetFunc; fns, the pointers its     *)
(* lookups returned, in order; lookups, the bootstrap lookups made; n, i   *)
(* and f, the loop bound and indices; st, the loop's state.  pc = "return" *)
(* is the call at a `return false;`.                                       *)

\* The operation names an engine looks up, in the order of its lookups.
EngineNames(w) ==
  IF w \in { "plugin_bridge_batch_get_fx_parameters",
             "plugin_bridge_batch_get_multi_track_fx_parameters" }
    THEN RequiredReadNames
  ELSE IF w \in { "plugin_bridge_batch_set_fx_parameters",
                  "plugin_bridge_batch_set_multi_track_fx_parameters" }
    THEN << "TrackFX_SetParam" >>
  ELSE << "TrackFX_FormatParamValue" >>

\* The test of the arguments at the head of each engine.
InvalidInput(w, a) ==
  CASE w = "plugin_bridge_batch_get_fx_parameters" ->
         a.track = NULL \/ a.params = NULL \/ a.out_param_count = NULL \/ a.max_params <= 0
    [] w = "plugin_bridge_batch_set_fx_parameters" ->
         a.track = NULL \/ a.changes = NULL \/ a.change_count <= 0
    [] w = "plugin_bridge_batch_format_fx_parameters" ->
         a.track = NULL \/ a.params = NULL \/ a.param_count <= 0
    [] w = "plugin_bridge_batch_get_multi_track_fx_parameters" ->
         a.tracks = NULL \/ a.track_count <= 0 \/ a.fx_indices = NULL
           \/ a.fx_counts = NULL \/ a.param_buffers = NULL \/ a.param_counts = NULL
    [] w = "plugin_bridge_batch_format_multi_fx_parameters" ->
         a.tracks = NULL \/ a.params = NULL \/ a.param_count <= 0
    [] w = "plugin_bridge_batch_set_multi_track_fx_parameters" ->
         a.tracks = NULL \/ a.changes = NULL \/ a.change_count <= 0

\* The locals of a call that has just been entered.
Entered ==
  [pc |-> "handle", getFuncPtr |-> NULL, reads |-> 0, fns |-> <<>>, lookups |-> <<>>,
   n |-> 0, i |-> 0, f |-> 0, st |-> NULL]

\* `return false;`
ReturnFalse(fr) == [fr EXCEPT !.pc = "return"]

\* An engine that fetches the bootstrap handle before it looks at its
\* arguments.
engine_enter_handle_first(call) ==
  LET fr == [Entered EXCEPT !.getFuncPtr = plugin_bridge_get_get_func, !.reads = 1] IN
  IF InvalidInput(call.wrapper, call.args) \/ fr.getFuncPtr = NULL
    THEN ReturnFalse(fr)
    ELSE [fr EXCEPT !.pc = "lookup"]

\* Entry of an engine: the test of the arguments.
EngineEnter(call) ==
  IF InvalidInput(call.wrapper, call.args) THEN ReturnFalse(Entered) ELSE Entered

\* void* getFuncPtr = plugin_bridge_get_get_func(); if (!getFuncPtr) return false;
EngineReadHandle(fr) ==
  LET got == [fr EXCEPT !.getFuncPtr = plugin_bridge_get_get_func, !.reads = fr.reads + 1] IN
  IF got.getFuncPtr = NULL THEN ReturnFalse(got) ELSE [got EXCEPT !.pc = "lookup"]

\* A lookup that fetches the stored handle anew instead of using the local.
lookup_handle_fetched_again(fr) == plugin_bridge_get_get_func

\* The handle an engine passes to plugin_bridge_call_get_func: its local.
LookupHandle(fr) == fr.getFuncPtr

\* The next lookup of the call and the test of its result.
EngineLookup(call, fr) ==
  LET names == EngineNames(call.wrapper)
      k == Len(fr.fns) + 1
      r == plugin_bridge_call_get_func(LookupHandle(fr), Str(names[k]))
      looked == [fr EXCEPT !.lookups = fr.lookups \o r.lookups]
  IN IF r.ret = NULL THEN ReturnFalse(looked)
     ELSE [looked EXCEPT !.fns = Append(fr.fns, r.ret),
                         !.pc = IF k = Len(names) THEN "start" ELSE "lookup"]

\* From the last lookup to the head of the loop: the casts, the count query
\* of the single-target read, the loop's initial state and its bound.
EngineStart(call, fr) ==
  LET w == call.wrapper
      a == call.args
      loop(n, st) == [fr EXCEPT !.pc = "loop", !.n = n, !.i = 0, !.f = 0, !.st = st]
  IN
  CASE w = "plugin_bridge_batch_get_fx_parameters" ->
         loop(IF call.h.count <= 0 THEN 0
              ELSE IF call.h.count > a.max_params THEN a.max_params ELSE call.h.count,
              [params |-> a.params[2],
               calls |-> << Native(fr.fns[1], <<a.track, a.fx_idx>>) >>])
    [] w = "plugin_bridge_batch_set_fx_parameters" ->
         loop(a.change_count, [all_success |-> 1, calls |-> <<>>])
    [] w = "plugin_bridge_batch_format_fx_parameters" ->
         loop(a.param_count, [params |-> a.params[2], calls |-> <<>>])
    [] w = "plugin_bridge_batch_get_multi_track_fx_parameters" ->
         loop(a.track_count,
              [param_buffers |-> a.param_buffers[2], param_counts |-> a.param_counts[2],
               calls |-> <<>>, stores |-> <<>>, stray |-> <<>>])
    [] w = "plugin_bridge_batch_format_multi_fx_parameters" ->
         loop(a.param_count, [ret |-> NULL, params |-> a.params[2], calls |-> <<>>])
    [] w = "plugin_bridge_batch_set_multi_track_fx_parameters" ->
         loop(a.change_count, [all_success |-> 1, calls |-> <<>>])

\* One iteration of the single-target read's loop.
IterateGet(call, fr) ==
  [fr EXCEPT !.i = fr.i + 1,
             !.st = ReadParams(fr.i, fr.i + 1,
                      [track |-> call.args.track, fx_idx |-> call.args.fx_idx, h |-> call.h,
                       getParamNameFunc |-> fr.fns[2], getParamFunc |-> fr.fns[3],
                       getFormattedFunc |-> fr.fns[4]],
                      fr.st)]

\* One iteration of the single-target apply's loop.
IterateSet(call, fr) ==
  [fr EXCEPT !.i = fr.i + 1,
             !.st = ApplyChanges(fr.i, fr.i + 1,
                      [track |-> call.args.track, changes |-> call.args.changes[2],
                       h |-> call.h, setParamFunc |-> fr.fns[1]],
                      fr.st)]

\* One iteration of the single-target format's loop.
IterateFormat(call, fr) ==
  [fr EXCEPT !.i = fr.i + 1,
             !.st = FormatParams(fr.i, fr.i + 1,
                      [track |-> call.args.track, h |-> call.h, formatValueFunc |-> fr.fns[1]],
                      fr.st)]

\* One step of the multi-track read's loops: track i is skipped, or FX f of
\* track i is read and the inner index, then the outer one, moves on.
IterateMultiGet(call, fr) ==
  LET a == call.args
      t == fr.i
      fx_count == a.fx_counts[2][t + 1]
  IN
  IF a.tracks[2][t + 1] = NULL \/ fx_count <= 0
  THEN [fr EXCEPT !.i = t + 1, !.f = 0]
  ELSE
  LET read == MultiReadFx(fr.f, t,
                [tracks |-> a.tracks[2], fx_indices |-> a.fx_indices[2],
                 fx_counts |-> [a.fx_counts[2] EXCEPT ![t + 1] = fr.f + 1], h |-> call.h,
                 getParamCountFunc |-> fr.fns[1], getParamNameFunc |-> fr.fns[2],
                 getParamFunc |-> fr.fns[3], getFormattedFunc |-> fr.fns[4]],
                fr.st)
  IN IF fr.f + 1 >= fx_count
       THEN [fr EXCEPT !.st = read, !.i = t + 1, !.f = 0]
       ELSE [fr EXCEPT !.st = read, !.f = fr.f + 1]

\* One iteration of the multi-track format's loop; a request on a negative
\* track index or a NULL track returns false from inside the loop.
IterateMultiFormat(call, fr) ==
  LET st == FormatMultiParams(fr.i, fr.i + 1,
              [tracks |-> call.args.tracks[2], h |-> call.h, formatValueFunc |-> fr.fns[1]],
              fr.st)
      kept == [st EXCEPT !.ret = NULL]
  IN IF st.ret = 0
       THEN ReturnFalse([fr EXCEPT !.st = kept])
       ELSE [fr EXCEPT !.i = fr.i + 1, !.st = kept]

\* A multi-track apply loop written with `while` whose `continue` on an
\* unusable track skips the increment of the index.
iterate_multi_set_stuck(call, fr) ==
  LET track_idx == call.args.changes[2][fr.i + 1].track_index IN
  IF track_idx < 0 \/ call.args.tracks[2][track_idx + 1] = NULL
  THEN [fr EXCEPT !.st.all_success = 0]
  ELSE [fr EXCEPT !.i = fr.i + 1,
                  !.st = ApplyMultiChanges(fr.i, fr.i + 1,
                           [tracks |-> call.args.tracks[2], changes |-> call.args.changes[2],
                            h |-> call.h, setParamFunc |-> fr.fns[1]],
                           fr.st)]

\* One iteration of the multi-track apply's loop.
IterateMultiSet(call, fr) ==
  [fr EXCEPT !.i = fr.i + 1,
             !.st = ApplyMultiChanges(fr.i, fr.i + 1,
                      [tracks |-> call.args.tracks[2], changes |-> call.args.changes[2],
                       h |-> call.h, setParamFunc |-> fr.fns[1]],
                      fr.st)]

\* One pass through the body of the running engine's loop.
EngineIterate(call, fr) ==
  CASE call.wrapper = "plugin_bridge_batch_get_fx_parameters" -> IterateGet(call, fr)
    [] call.wrapper = "plugin_bridge_batch_set_fx_parameters" -> IterateSet(call, fr)
    [] call.wrapper = "plugin_bridge_batch_format_fx_parameters" -> IterateFormat(call, fr)
    [] call.wrapper = "plugin_bridge_batch_get_multi_track_fx_parameters" ->
         IterateMultiGet(call, fr)
    [] call.wrapper = "plugin_bridge_batch_format_multi_fx_parameters" ->
         IterateMultiFormat(call, fr)
    [] call.wrapper = "plugin_bridge_batch_set_multi_track_fx_parameters" ->
         IterateMultiSet(call, fr)

\* What the caller's output structures hold and what the call returns, from
\* the locals at the return statement.  A call that returned before its
\* loop (st = NULL) has written nothing.
EngineResult(call, fr) ==
  LET w == call.wrapper
      a == call.args
      ran == fr.st # NULL
      made == [calls |-> IF ran THEN fr.st.calls ELSE <<>>, lookups |-> fr.lookups]
  IN
  CASE w = "plugin_bridge_batch_get_fx_parameters" ->
         made @@ [ret |-> IF ran THEN 1 ELSE 0,
                  params |-> IF ran THEN Array(fr.st.params) ELSE a.params,
                  out_param_count |-> IF ran THEN Cell(fr.n) ELSE a.out_param_count]
    [] w \in { "plugin_bridge_batch_set_fx_parameters",
               "plugin_bridge_batch_set_multi_track_fx_parameters" } ->
         made @@ [ret |-> IF ran THEN fr.st.all_success ELSE 0]
    [] w = "plugin_bridge_batch_format_fx_parameters" ->
         made @@ [ret |-> IF ran THEN 1 ELSE 0,
                  params |-> IF ran THEN Array(fr.st.params) ELSE a.params]
    [] w = "plugin_bridge_batch_get_multi_track_fx_parameters" ->
         made @@ [ret |-> IF ran THEN 1 ELSE 0,
                  param_buffers |-> IF ran THEN Array(fr.st.param_buffers) ELSE a.param_buffers,
                  param_counts |-> IF ran THEN Array(fr.st.param_counts) ELSE a.param_counts,
                  stores |-> IF ran THEN fr.st.stores ELSE <<>>,
                  stray |-> IF ran THEN fr.st.stray ELSE <<>>]
    [] w = "plugin_bridge_batch_format_multi_fx_parameters" ->
         made @@ [ret |-> IF ran /\ fr.pc # "return" THEN 1 ELSE 0,
                  params |-> IF ran THEN Array(fr.st.params) ELSE a.params]

\* The host answers alike for every item of the call and a single-target
\* call is about effect 0; of several tracks only the first may be NULL, and
\* only the first request of a multi-track list may name a track other than
\* the first; the announced FX counts are alike from the second track on.
HostAlike(c) ==
  LET alike(seq) == \A k \in DOMAIN seq : seq[k] = seq[1]
      first(array) == array = NULL \/ array[2][1].fx_index = 0
      live(tracks) == tracks = NULL \/ \A t \in DOMAIN tracks[2] : t > 1 => tracks[2][t] # NULL
      onfirst(array) ==
        array = NULL \/ \A k \in DOMAIN array[2] : k > 1 => array[2][k].track_index = 0
  IN
  CASE c.wrapper = "plugin_bridge_batch_get_fx_parameters" ->
         /\ c.args.fx_idx = 0
         /\ alike(c.h.items)
         /\ \A k \in DOMAIN c.h.items :
              /\ c.h.items[k].name = NULL <=> c.h.items[k].formatted = NULL
              /\ c.h.items[k].name = NULL <=> c.h.items[k].param.range = NULL
    [] c.wrapper = "plugin_bridge_batch_set_fx_parameters" ->
         first(c.args.changes) /\ alike(c.h.results)
    [] c.wrapper = "plugin_bridge_batch_format_fx_parameters" ->
         first(c.args.params) /\ alike(c.h.writes)
    [] c.wrapper = "plugin_bridge_batch_get_multi_track_fx_parameters" ->
         /\ \A t, u \in DOMAIN c.h.counts :
              \A f \in DOMAIN c.h.counts[t], g \in DOMAIN c.h.counts[u] :
                c.h.counts[t][f] = c.h.counts[u][g]
         /\ live(c.args.tracks)
         /\ c.args.fx_counts = NULL
              \/ \A t \in DOMAIN c.args.fx_counts[2] :
                   t > 1 => c.args.fx_counts[2][t] = c.args.fx_counts[2][2]
    [] c.wrapper = "plugin_bridge_batch_format_multi_fx_parameters" ->
         live(c.args.tracks) /\ onfirst(c.args.params)
    [] c.wrapper = "plugin_bridge_batch_set_multi_track_fx_parameters" ->
         live(c.args.tracks) /\ onfirst(c.args.changes)

\* The calls that are run step by step.
SteppedCalls == { c \in PendingBatchCalls : HostAlike(c) }

InitSteps ==
  /\ s_GetFunc = NULL
  /\ remembered = NoCall
  /\ pending \in SteppedCalls
  /\ last = NoneYet

\* The caller enters the engine.
Enter ==
  /\ pending # NULL
  /\ remembered = NoCall
  /\ remembered' = EngineEnter(pending)
  /\ UNCHANGED <<s_GetFunc, pending, last>>

\* The running call fetches the stored handle.
ReadHandle ==
  /\ remembered # NoCall
  /\ remembered.pc = "handle"
  /\ remembered' = EngineReadHandle(remembered)
  /\ UNCHANGED <<s_GetFunc, pending, last>>

\* The running call makes its next lookup.
Lookup ==
  /\ remembered # NoCall
  /\ remembered.pc = "lookup"
  /\ remembered' = EngineLookup(pending, remembered)
  /\ UNCHANGED <<s_GetFunc, pending, last>>

\* The running call reaches the head of its loop.
Start ==
  /\ remembered # NoCall
  /\ remembered.pc = "start"
  /\ remembered' = EngineStart(pending, remembered)
  /\ UNCHANGED <<s_GetFunc, pending, last>>

\* The running call passes through its loop body once.
Iterate ==
  /\ remembered # NoCall
  /\ remembered.pc = "loop"
  /\ remembered.i < remembered.n
  /\ remembered' = EngineIterate(pending, remembered)
  /\ UNCHANGED <<s_GetFunc, pending, last>>

\* The running call returns: by an early return, or past the end of its
\* loop.  A multi-track read that stored through an index outside the
\* caller's table may return either value.
Return ==
  /\ remembered # NoCall
  /\ \/ remembered.pc = "return"
     \/ remembered.pc = "loop" /\ remembered.i >= remembered.n
  /\ LET r == EngineResult(pending, remembered)
         strayed == "stray" \in DOMAIN r /\ r.stray # <<>>
     IN \E ret \in (IF strayed THEN {0, 1} ELSE {r.ret}) :
          last' = [r EXCEPT !.ret = ret]
                    @@ [op |-> pending.wrapper, args |-> pending.args, h |-> pending.h,
                        boot |-> remembered.getFuncPtr, stored |-> s_GetFunc,
                        reads |-> remembered.reads]
  /\ remembered' = NoCall
  /\ pending' = NULL
  /\ UNCHANGED s_GetFunc

\* The steps of the calling thread.
RunCall == Enter \/ ReadHandle \/ Lookup \/ Start \/ Iterate \/ Return

NextSteps == SetGetFunc \/ RunCall

SpecSteps == InitSteps /\ [][NextSteps]_vars

\* The calling thread is never suspended for good: a batch call is
\* synchronous and each native call returns.
SpecStepsFair == SpecSteps /\ WF_vars(RunCall)

----------------------------------------------------------------------------
(* Properties of the resolver. *)

\* C1: once a non-null handle A is stored, a later
\* plugin_bridge_set_get_func with any handle leaves the stored handle (the
\* one plugin_bridge_get_get_func returns) at A: the first non-null set wins
\* and is never overwritten.
C1_FirstSetWins ==
  [][ (last'.op = "set_get_func" /\ s_GetFunc # NULL)
      => plugin_bridge_get_get_func' = s_GetFunc ]_vars

\* C2: plugin_bridge_set_get_func(NULL) leaves the stored handle exactly as
\* it was (NULL stays NULL, a handle stays that handle) and makes no native
\* call and no lookup.
C2_SetNullKeepsHandle ==
  [][ (last'.op = "set_get_func" /\ last'.args[1] = NULL)
      => /\ s_GetFunc' = s_GetFunc
         /\ last'.calls = <<>>
         /\ last'.lookups = <<>> ]_vars

\* C2 witness: a NULL set has just returned and a non-null handle is stored.
C2_Witness ==
  /\ last.op = "set_get_func"
  /\ last.args[1] = NULL
  /\ s_GetFunc # NULL

\* C3 as stated: plugin_bridge_call_get_func returns NULL without invoking
\* the bootstrap lookup whenever the bootstrap handle is NULL or the name is
\* NULL or the empty string, and changes no state.
C3_EmptyNameRejected ==
  [][ ( /\ last'.op = "call_get_func"
        /\ \/ last'.args[1] = NULL
           \/ last'.args[2] = NULL
           \/ last'.args[2] = Str("") )
      => /\ last'.ret = NULL
         /\ last'.lookups = <<>>
         /\ s_GetFunc' = s_GetFunc ]_vars

\* C3 as amended: plugin_bridge_call_get_func returns NULL without invoking
\* the bootstrap lookup whenever the bootstrap handle is NULL or the name
\* pointer is NULL, and changes no state; an empty-string name given with a
\* non-null bootstrap handle is handed to the lookup exactly once.
C3_NullRejected ==
  [][ last'.op = "call_get_func"
      => /\ (last'.args[1] = NULL \/ last'.args[2] = NULL)
              => (last'.ret = NULL /\ last'.lookups = <<>>)
         /\ (last'.args[1] # NULL /\ last'.args[2] = Str(""))
              => last'.lookups = << [boot |-> last'.args[1], name |-> Str("")] >>
         /\ s_GetFunc' = s_GetFunc ]_vars

\* C3 witness: a resolve call with a non-null bootstrap and a NULL name was
\* rejected while a bootstrap handle was stored.
C3_Witness ==
  /\ last.op = "call_get_func"
  /\ last.args[1] # NULL
  /\ last.args[2] = NULL
  /\ last.ret = NULL
  /\ s_GetFunc # NULL

\* C4: two plugin_bridge_call_get_func calls with the same non-null
\* bootstrap handle and the same name return the same handle, whatever
\* resolve calls (and set calls) happened in between.
C4_ResolveDeterministic ==
  ( /\ last.op = "call_get_func"
    /\ remembered.boot # NULL
    /\ last.args[1] = remembered.boot
    /\ last.args[2] = remembered.name )
    => last.ret = remembered.ret

\* C4 witness: the same (bootstrap, name) pair resolved again to a non-null
\* handle with another resolve call in between, after the stored handle had
\* been set to a different bootstrap.
C4_Witness ==
  /\ last.op = "call_get_func"
  /\ remembered.boot # NULL
  /\ last.args[1] = remembered.boot
  /\ last.args[2] = remembered.name
  /\ remembered.age >= 2
  /\ last.ret # NULL
  /\ s_GetFunc # NULL
  /\ s_GetFunc # remembered.boot

----------------------------------------------------------------------------
(* Properties of the typed invocation wrappers.  What a wrapper's C        *)
(* signature says about it, stated apart from the wrapper's body.          *)

\* the wrapper's function-handle argument
HandleArg(w, a) ==
  IF w = "plugin_bridge_call_register" THEN a.register_func_ptr ELSE a.func_ptr

\* wrappers declared void, and wrappers declared to return a pointer
VoidWrappers ==
  { "plugin_bridge_call_track_fx_get_name",
    "plugin_bridge_call_track_fx_get_param_name",
    "plugin_bridge_call_track_fx_get_param_formatted",
    "plugin_bridge_call_track_fx_format_param_value",
    "plugin_bridge_call_set_ext_state", "plugin_bridge_call_delete_ext_state",
    "plugin_bridge_call_undo_begin_block", "plugin_bridge_call_undo_begin_block2",
    "plugin_bridge_call_undo_end_block", "plugin_bridge_call_undo_end_block2",
    "plugin_bridge_call_show_console_msg" }

PointerWrappers ==
  { "plugin_bridge_call_get_selected_track", "plugin_bridge_call_get_ext_state" }

\* 0, false or NULL by the declared return type, nothing for a void wrapper
ZeroDefault(w) ==
  IF w \in VoidWrappers THEN Void ELSE IF w \in PointerWrappers THEN NULL ELSE 0

\* wrappers with a void* track parameter (the target handle)
TrackWrappers ==
  { "plugin_bridge_call_track_fx_get_count", "plugin_bridge_call_track_fx_get_name",
    "plugin_bridge_call_track_fx_get_param_count",
    "plugin_bridge_call_track_fx_get_param_name",
    "plugin_bridge_call_track_fx_get_param",
    "plugin_bridge_call_track_fx_get_param_formatted",
    "plugin_bridge_call_track_fx_set_param",
    "plugin_bridge_call_track_fx_format_param_value",
    "plugin_bridge_call_track_fx_get_parameter_step_sizes",
    "plugin_bridge_call_track_get_info_value", "plugin_bridge_call_get_track_name" }

\* the const char* parameters of a wrapper
StringParams(w) ==
  CASE w = "plugin_bridge_call_track_get_info_value" -> {"param"}
    [] w = "plugin_bridge_call_get_user_inputs" -> {"title", "captions"}
    [] w = "plugin_bridge_call_show_message_box" -> {"text", "title"}
    [] w \in { "plugin_bridge_call_get_ext_state", "plugin_bridge_call_has_ext_state",
               "plugin_bridge_call_delete_ext_state" } -> {"section", "key"}
    [] w = "plugin_bridge_call_set_ext_state" -> {"section", "key", "value"}
    [] w \in { "plugin_bridge_call_undo_end_block",
               "plugin_bridge_call_undo_end_block2" } -> {"description"}
    [] w = "plugin_bridge_call_show_console_msg" -> {"message"}
    [] w = "plugin_bridge_call_register" -> {"name"}
    [] OTHER -> {}

\* wrappers with a char* output buffer and its capacity
BufferWrappers ==
  { "plugin_bridge_call_track_fx_get_name",
    "plugin_bridge_call_track_fx_get_param_name",
    "plugin_bridge_call_track_fx_get_param_formatted",
    "plugin_bridge_call_track_fx_format_param_value",
    "plugin_bridge_call_get_track_name", "plugin_bridge_call_get_user_inputs" }

BufArg(w, a) == IF w = "plugin_bridge_call_get_user_inputs" THEN a.values ELSE a.buf
SizeArg(w, a) == IF w = "plugin_bridge_call_get_user_inputs" THEN a.values_sz ELSE a.buf_size

\* a required argument is invalid: NULL target handle, NULL string, NULL
\* output buffer or capacity <= 0
InvalidRequired(w, a) ==
  \/ w \in TrackWrappers /\ a.track = NULL
  \/ \E f \in StringParams(w) : a[f] = NULL
  \/ w \in BufferWrappers /\ (BufArg(w, a) = NULL \/ SizeArg(w, a) <= 0)

\* the argument list of the host function behind w, from the wrapper's own
\* arguments, in the order of the host's signature
HostSignatureArgs(w, a) ==
  CASE w = "plugin_bridge_call_track_fx_get_count" -> <<a.track>>
    [] w = "plugin_bridge_call_track_fx_get_name" ->
         <<a.track, a.fx_idx, a.buf, a.buf_size>>
    [] w = "plugin_bridge_call_track_fx_get_param_count" -> <<a.track, a.fx_idx>>
    [] w \in { "plugin_bridge_call_track_fx_get_param_name",
               "plugin_bridge_call_track_fx_get_param_formatted" } ->
         <<a.track, a.fx_idx, a.param_idx, a.buf, a.buf_size>>
    [] w = "plugin_bridge_call_track_fx_get_param" ->
         <<a.track, a.fx_idx, a.param_idx, a.minval, a.maxval>>
    [] w = "plugin_bridge_call_track_fx_set_param" ->
         <<a.track, a.fx_idx, a.param_idx, a.val>>
    [] w = "plugin_bridge_call_track_fx_format_param_value" ->
         <<a.track, a.fx_idx, a.param_idx, a.value, a.buf, a.buf_size>>
    [] w = "plugin_bridge_call_track_fx_get_parameter_step_sizes" ->
         <<a.track, a.fx_idx, a.param_idx, a.step, a.small_step, a.large_step,
           a.is_toggle>>
    [] w = "plugin_bridge_call_get_selected_track" -> <<a.proj, a.seltrackidx>>
    [] w = "plugin_bridge_call_track_get_info_value" -> <<a.track, a.param>>
    [] w = "plugin_bridge_call_get_track_name" ->
         <<a.track, a.buf, a.buf_size, a.flags>>
    [] w = "plugin_bridge_call_get_user_inputs" ->
         <<a.title, a.num_inputs, a.captions, a.values, a.values_sz>>
    [] w = "plugin_bridge_call_show_message_box" -> <<a.text, a.title, a.type>>
    [] w \in { "plugin_bridge_call_get_ext_state", "plugin_bridge_call_has_ext_state",
               "plugin_bridge_call_delete_ext_state" } -> <<a.section, a.key>>
    [] w = "plugin_bridge_call_set_ext_state" ->
         <<a.section, a.key, a.value, a.persist>>
    [] w = "plugin_bridge_call_undo_begin_block" -> <<>>
    [] w = "plugin_bridge_call_undo_begin_block2" -> <<a.proj>>
    [] w = "plugin_bridge_call_undo_end_block" -> <<a.description, a.flags>>
    [] w = "plugin_bridge_call_undo_end_block2" ->
         <<a.proj, a.description, a.flags>>
    [] w = "plugin_bridge_call_show_console_msg" -> <<a.message>>
    [] w = "plugin_bridge_call_register" -> <<a.name, a.info>>

C7_RejectedBufferEmptied ==
  ( /\ last.op \in BufferWrappers
    /\ \/ HandleArg(last.op, last.args) = NULL
       \/ InvalidRequired(last.op, last.args)
    /\ BufArg(last.op, last.args) # NULL )
    => last.buf = Buf("")

\* C8 as stated: with all arguments valid a wrapper invokes the native
\* operation exactly once with the arguments unchanged and returns exactly
\* the value the native call returned.
C8_PassThroughExact ==
  ( /\ last.op \in Wrappers
    /\ HandleArg(last.op, last.args) # NULL
    /\ ~InvalidRequired(last.op, last.args) )
    => /\ last.calls = << [fn |-> HandleArg(last.op, last.args),
                           args |-> HostSignatureArgs(last.op, last.args)] >>
       /\ last.ret = last.nat.ret

\* C8 as amended: with all arguments valid a wrapper invokes the native
\* operation exactly once with the arguments unchanged and returns exactly
\* the value the native call returned, except
\* plugin_bridge_call_has_ext_state, which returns true when the host's int
\* result is non-zero and false when it is zero.
C8_PassThrough ==
  ( /\ last.op \in Wrappers
    /\ HandleArg(last.op, last.args) # NULL
    /\ ~InvalidRequired(last.op, last.args) )
    => /\ last.calls = << [fn |-> HandleArg(last.op, last.args),
                           args |-> HostSignatureArgs(last.op, last.args)] >>
       /\ last.ret = IF last.op = "plugin_bridge_call_has_ext_state"
                       THEN (IF last.nat.ret = 0 THEN 0 ELSE 1)
                       ELSE last.nat.ret

\* C8 witness: the set-value wrapper passed a value above 1 to the host
\* unclamped and returned the host's "false".
C8_Witness ==
  /\ last.op = "plugin_bridge_call_track_fx_set_param"
  /\ last.args.func_ptr # NULL
  /\ last.args.track # NULL
  /\ last.args.val > 1
  /\ last.nat.ret = 0
  /\ Len(last.calls) = 1
  /\ last.calls[1].args[4] = last.args.val
  /\ last.ret = 0

----------------------------------------------------------------------------
(* Properties of the batch read engine. *)

BatchGetDone == last.op = "plugin_bridge_batch_get_fx_parameters"

\* The required operations the stored handle's host cannot resolve.
Unresolvable(boot) ==
  { RequiredReadNames[k] : k \in 1..Len(RequiredReadNames) } \cap HostMissing(boot[2])

\* C9: plugin_bridge_batch_get_fx_parameters called with a NULL track, a
\* NULL output array or max_params <= 0 returns false, and the caller's
\* out_param_count cell, when it is non-null, holds 0 on return.
C9_InvalidInputCountZero ==
  ( /\ BatchGetDone
    /\ (last.args.track = NULL \/ last.args.params = NULL \/ last.args.max_params <= 0) )
  => /\ last.ret = 0
     /\ last.args.out_param_count # NULL => last.out_param_count = Cell(0)

\* C10: when any one of the four required operations cannot be resolved
\* (the arguments being valid and a handle stored), the batch read returns
\* false, out_param_count holds 0, no slot of the array is written and no
\* native call is made.
C10_UnresolvedFailsFast ==
  ( /\ BatchGetDone
    /\ last.args.track # NULL /\ last.args.params # NULL
    /\ last.args.out_param_count # NULL /\ last.args.max_params > 0
    /\ last.boot # NULL
    /\ Unresolvable(last.boot) # {} )
  => /\ last.ret = 0
     /\ last.out_param_count = Cell(0)
     /\ last.params = last.args.params
     /\ last.calls = <<>>

\* The batch read got as far as asking the host for the parameter count:
\* valid arguments, a stored handle, all four operations resolved.
BatchGetCounted ==
  /\ BatchGetDone
  /\ last.args.track # NULL /\ last.args.params # NULL
  /\ last.args.out_param_count # NULL /\ last.args.max_params > 0
  /\ last.boot # NULL
  /\ Unresolvable(last.boot) = {}

\* C11: when the native parameter count is zero or negative, the batch read
\* returns true with out_param_count = 0, its only native call is the count
\* query (no per-item call), and every slot of the array is as it was.
C11_NoParamsIsSuccess ==
  (BatchGetCounted /\ last.h.count <= 0)
  => /\ last.ret = 1
     /\ last.out_param_count = Cell(0)
     /\ last.calls = << Native(HostFn(last.boot[2], "TrackFX_GetNumParams"),
                               <<last.args.track, last.args.fx_idx>>) >>
     /\ last.params = last.args.params

\* C11 witness: a batch read returned against a host reporting a negative count.
C11_Witness ==
  /\ BatchGetCounted
  /\ last.h.count < 0
  /\ last.ret = 1

\* C12: for a positive native count the batch read returns true with
\* out_param_count = min(native count, max_params); a count above the
\* capacity is truncated to the capacity and is never a failure.
C12_TruncationIsSuccess ==
  (BatchGetCounted /\ last.h.count > 0)
  => /\ last.ret = 1
     /\ last.out_param_count =
          Cell(IF last.h.count > last.args.max_params
                 THEN last.args.max_params ELSE last.h.count)

\* C12 witness: the host reported more parameters than the array holds and
\* the array was filled to its capacity.
C12_Witness ==
  /\ BatchGetCounted
  /\ last.h.count > last.args.max_params
  /\ last.ret = 1
  /\ Len(last.calls) = 1 + 3 * last.args.max_params

\* The batch apply got as far as its loop: valid arguments, a stored handle,
\* TrackFX_SetParam resolved.
BatchSetApplied ==
  /\ last.op = "plugin_bridge_batch_set_fx_parameters"
  /\ last.args.track # NULL /\ last.args.changes # NULL /\ last.args.change_count > 0
  /\ last.boot # NULL
  /\ HostGetFunc(last.boot, Str("TrackFX_SetParam")) # NULL

\* C13: a batch apply of n changes attempts the native set once for every
\* change 0..n-1, in list order, whichever of them the host refused: a
\* refused change never keeps a later one from being attempted.
C13_EveryChangeAttempted ==
  BatchSetApplied
  => /\ Len(last.calls) = last.args.change_count
     /\ \A i \in 1..last.args.change_count :
          last.calls[i] =
            Native(HostFn(last.boot[2], "TrackFX_SetParam"),
                   << last.args.track,
                      last.args.changes[2][i].fx_index,
                      last.args.changes[2][i].param_index,
                      last.args.changes[2][i].value >>)

\* C13 witness: the host refused the first of several changes and the
\* later ones were still attempted.
C13_Witness ==
  /\ BatchSetApplied
  /\ last.args.change_count = MaxChanges
  /\ last.h.results[1] = 0
  /\ Len(last.calls) = MaxChanges

\* C14: with valid inputs and a resolved set operation, the batch apply
\* returns true exactly when every native set call returned true.
C14_AggregateSuccess ==
  BatchSetApplied
  => (last.ret = 1 <=> \A i \in 1..last.args.change_count : last.h.results[i] = 1)

\* C14 witness: only the first of several changes was refused, the later
\* ones succeeded, and the call returned false.
C14_Witness ==
  /\ BatchSetApplied
  /\ last.args.change_count = MaxChanges
  /\ last.h.results[1] = 0
  /\ \A i \in 2..MaxChanges : last.h.results[i] = 1
  /\ last.ret = 0

\* The batch format got as far as its loop: valid arguments, a stored
\* handle, TrackFX_FormatParamValue resolved.
BatchFormatRan ==
  /\ last.op = "plugin_bridge_batch_format_fx_parameters"
  /\ last.args.track # NULL /\ last.args.params # NULL /\ last.args.param_count > 0
  /\ last.boot # NULL
  /\ HostGetFunc(last.boot, Str("TrackFX_FormatParamValue")) # NULL

\* C15: with valid inputs and a resolved format operation, the batch format
\* invokes the format operation once for each of its n requests and returns
\* true, whatever the host produced for any single request.
C15_FormatNeverFails ==
  BatchFormatRan
  => /\ last.ret = 1
     /\ Len(last.calls) = last.args.param_count
     /\ \A i \in 1..last.args.param_count :
          /\ last.calls[i].fn = HostFn(last.boot[2], "TrackFX_FormatParamValue")
          /\ last.calls[i].args[3] = last.args.params[2][i].param_index

\* C15 witness: the host produced no text for the first of several requests,
\* did for the last, and the call returned true.
C15_Witness ==
  /\ BatchFormatRan
  /\ last.args.param_count = MaxChanges
  /\ last.h.writes[1] = NULL
  /\ last.h.writes[MaxChanges] # NULL
  /\ last.params[2][MaxChanges].formatted = "2 dB"
  /\ last.ret = 1

----------------------------------------------------------------------------
(* Properties of the multi-track engines. *)

\* The multi-track read got as far as its loops: valid arguments, a stored
\* handle, all four operations resolved.
MultiGetRan ==
  /\ last.op = "plugin_bridge_batch_get_multi_track_fx_parameters"
  /\ last.args.tracks # NULL /\ last.args.track_count > 0
  /\ last.args.fx_indices # NULL /\ last.args.fx_counts # NULL
  /\ last.args.param_buffers # NULL /\ last.args.param_counts # NULL
  /\ last.boot # NULL
  /\ Unresolvable(last.boot) = {}

\* sum of fx_counts[i] for all i < t, plus f
FlatIndex(fx_counts, t, f) ==
  LET sum[k \in 0..t] == IF k = 0 THEN 0 ELSE sum[k - 1] + fx_counts[k]
  IN sum[t] + f

\* C16: in a multi-track read a NULL track at index t is skipped: the count
\* of each of its entries in the result table is recorded as 0, the tracks
\* after t are still processed, and the call returns true.
C16_NullTrackCountsZero ==
  (MultiGetRan /\ last.stray = <<>>)
  => \A t \in 0..(last.args.track_count - 1) :
       last.args.tracks[2][t + 1] = NULL
       => /\ last.ret = 1
          /\ \A f \in 0..(last.args.fx_counts[2][t + 1] - 1) :
               LET idx == FlatIndex(last.args.fx_counts[2], t, f) IN
               InTable(last.param_counts[2], idx) => last.param_counts[2][idx + 1] = 0
          /\ \A u \in (t + 1)..(last.args.track_count - 1) :
               (last.args.tracks[2][u + 1] # NULL /\ last.args.fx_counts[2][u + 1] > 0)
               => \E k \in 1..Len(last.stores) : last.stores[k].t = u

\* C18: in a multi-track read the results of FX f of track t are stored at
\* the flattened index (sum of fx_counts[i] for i < t) + f, in param_counts
\* and in param_buffers alike: each processed (t, f) stores once, in order,
\* at that index, and the table holds there what the latest store put.
C18_FlattenedIndex ==
  MultiGetRan
  => /\ \A k \in 1..Len(last.stores) :
          last.stores[k].idx =
            FlatIndex(last.args.fx_counts[2], last.stores[k].t, last.stores[k].f)
     /\ \A t \in 0..(last.args.track_count - 1) :
          (last.args.tracks[2][t + 1] # NULL)
          => \A f \in 0..(last.args.fx_counts[2][t + 1] - 1) :
               Cardinality({ k \in 1..Len(last.stores) :
                             last.stores[k].t = t /\ last.stores[k].f = f }) = 1
     /\ last.stray = <<>>
        => \A k \in 1..Len(last.stores) :
             LET e == last.stores[k] IN
             (\A j \in (k + 1)..Len(last.stores) : last.stores[j].idx # e.idx)
             => /\ last.param_counts[2][e.idx + 1] = e.count
                /\ \A p \in 1..e.count :
                     last.param_buffers[2][e.idx + 1][p].value = last.h.item.param.ret

\* C18 witness: the second of two tracks has its second FX read with all
\* its parameters, behind a first track of two FX.
C18_Witness ==
  /\ MultiGetRan
  /\ last.stray = <<>>
  /\ last.args.fx_counts[2][1] = 2
  /\ \E k \in 1..Len(last.stores) :
       /\ last.stores[k] = [t |-> 1, f |-> 1, idx |-> 3, count |-> MaxParams]
       /\ last.param_counts[2][4] = MaxParams
       /\ last.param_buffers[2][4][MaxParams].value = 2

\* The multi-track format got as far as its loop.
MultiFormatRan ==
  /\ last.op = "plugin_bridge_batch_format_multi_fx_parameters"
  /\ last.args.tracks # NULL /\ last.args.params # NULL /\ last.args.param_count > 0
  /\ last.boot # NULL
  /\ HostGetFunc(last.boot, Str("TrackFX_FormatParamValue")) # NULL

\* Request i (from 1) of the multi-track format refers to a NULL track.
RefersToNullTrack(i) ==
  /\ last.args.params[2][i].track_index >= 0
  /\ last.args.tracks[2][last.args.params[2][i].track_index + 1] = NULL

\* Request j (from 1) of the multi-track format refers to a track.
RefersToTrack(j) ==
  /\ last.args.params[2][j].track_index >= 0
  /\ last.args.tracks[2][last.args.params[2][j].track_index + 1] # NULL

\* C17: in the multi-track format a request that refers to a NULL track is
\* skipped without aborting the call: every later request that refers to a
\* track is still handed to the host's format operation.
C17_NullTrackRequestSkipped ==
  MultiFormatRan
  => \A i \in 1..last.args.param_count :
       RefersToNullTrack(i)
       => \A j \in (i + 1)..last.args.param_count :
            RefersToTrack(j)
            => \E k \in 1..Len(last.calls) :
                 /\ last.calls[k].args[1] =
                      last.args.tracks[2][last.args.params[2][j].track_index + 1]
                 /\ last.calls[k].args[3] = last.args.params[2][j].param_index

----------------------------------------------------------------------------
(* Properties of all batch engines. *)

BatchEngines ==
  { "plugin_bridge_batch_get_fx_parameters",
    "plugin_bridge_batch_format_fx_parameters",
    "plugin_bridge_batch_set_fx_parameters",
    "plugin_bridge_batch_get_multi_track_fx_parameters",
    "plugin_bridge_batch_format_multi_fx_parameters",
    "plugin_bridge_batch_set_multi_track_fx_parameters" }

\* The multi-track apply got as far as its loop.
MultiSetRan ==
  /\ last.op = "plugin_bridge_batch_set_multi_track_fx_parameters"
  /\ last.args.tracks # NULL /\ last.args.changes # NULL /\ last.args.change_count > 0
  /\ last.boot # NULL
  /\ HostGetFunc(last.boot, Str("TrackFX_SetParam")) # NULL

\* The caller's output structures are as they were before the call.
OutputsUntouched ==
  /\ last.op = "plugin_bridge_batch_get_fx_parameters"
     => /\ last.params = last.args.params
        /\ last.out_param_count = last.args.out_param_count
  /\ last.op \in { "plugin_bridge_batch_format_fx_parameters",
                   "plugin_bridge_batch_format_multi_fx_parameters" }
     => last.params = last.args.params
  /\ last.op = "plugin_bridge_batch_get_multi_track_fx_parameters"
     => /\ last.param_buffers = last.args.param_buffers
        /\ last.param_counts = last.args.param_counts
        /\ last.stores = <<>>

\* C19: while no bootstrap handle is stored (never set, or only set with
\* NULL), every batch engine returns false, makes no bootstrap lookup and
\* no native call, and writes nothing to the caller's output structures.
C19_NoHandleNoEffect ==
  (last.op \in BatchEngines /\ last.boot = NULL)
  => /\ last.ret = 0
     /\ last.lookups = <<>>
     /\ last.calls = <<>>
     /\ OutputsUntouched

\* C19 witness: a multi-track read with valid arguments and work to do
\* returned false because no handle was stored.
C19_Witness ==
  /\ last.op = "plugin_bridge_batch_get_multi_track_fx_parameters"
  /\ last.boot = NULL
  /\ last.args.tracks # NULL /\ last.args.track_count = MaxTracks
  /\ last.args.fx_counts # NULL /\ last.args.param_counts # NULL
  /\ last.args.tracks[2][1] # NULL /\ last.args.fx_counts[2][1] > 0
  /\ last.ret = 0

\* The lookups of the call are exactly these names, once each and in this
\* order, all put to the handle that was stored when the call began.
LookedUp(names) ==
  /\ Len(last.lookups) = Len(names)
  /\ \A k \in 1..Len(names) :
       last.lookups[k] = [boot |-> last.boot, name |-> Str(names[k])]

\* C20: within one batch call each required operation is resolved exactly
\* once, however many items there are: a batch read (single or multi-track)
\* that gets to its loop makes exactly the four lookups, a batch apply or
\* batch format exactly one.
C20_ResolvedOnce ==
  /\ (BatchGetCounted \/ MultiGetRan) => LookedUp(RequiredReadNames)
  /\ (BatchSetApplied \/ MultiSetRan) => LookedUp(<<"TrackFX_SetParam">>)
  /\ (BatchFormatRan \/ MultiFormatRan) => LookedUp(<<"TrackFX_FormatParamValue">>)

\* C20 witness: a batch apply of several changes made one lookup and one
\* native call per change.
C20_Witness ==
  /\ BatchSetApplied
  /\ last.args.change_count = MaxChanges
  /\ Len(last.calls) = MaxChanges
  /\ Len(last.lookups) = 1

(***************************************************************************)
(* Properties of the single-target batch read's slots and native calls.    *)
(***************************************************************************)

\* The count the batch read stored for a positive native count.
FinalCount ==
  IF last.h.count > last.args.max_params THEN last.args.max_params ELSE last.h.count

\* C21: after a successful batch read, every slot i < out_count whose name
\* read or formatted-text read left the buffer unwritten holds the empty
\* string in that field, and holds 0 in min and max when the host did not
\* write them, whatever the caller's array held before the call.
C21_UnwrittenFieldsDefault ==
  (BatchGetCounted /\ last.h.count > 0 /\ last.ret = 1)
  => \A i \in 1..FinalCount :
       LET item == last.h.items[i]
           slot == last.params[2][i]
       IN /\ item.name = NULL => slot.name = ""
          /\ item.formatted = NULL => slot.formatted = ""
          /\ item.param.range = NULL => (slot.min = 0 /\ slot.max = 0)

\* The native calls a batch read makes for parameter index i, in order.
ItemCalls(i) ==
  << Native(HostFn(last.boot[2], "TrackFX_GetParamName"),
            <<last.args.track, last.args.fx_idx, i, <<"params", i, "name">>, BufSize>>),
     Native(HostFn(last.boot[2], "TrackFX_GetParam"),
            <<last.args.track, last.args.fx_idx, i, <<"local", "min">>, <<"local", "max">>>>),
     Native(HostFn(last.boot[2], "TrackFX_GetFormattedParamValue"),
            <<last.args.track, last.args.fx_idx, i, <<"params", i, "formatted">>, BufSize>>) >>

\* C22: a successful batch read with final count n makes exactly 1 + 3n
\* native calls: the count query first, then for i = 0..n-1 in increasing
\* order the name read, the value-with-bounds read and the formatted-text
\* read, each once; no index is skipped because an earlier sub-call failed.
C22_CallSequence ==
  (BatchGetCounted /\ last.ret = 1)
  => LET n == last.out_param_count[2] IN
     /\ Len(last.calls) = 1 + 3 * n
     /\ last.calls[1] = Native(HostFn(last.boot[2], "TrackFX_GetNumParams"),
                               <<last.args.track, last.args.fx_idx>>)
     /\ \A i \in 0..(n - 1) :
          SubSeq(last.calls, 2 + 3 * i, 4 + 3 * i) = ItemCalls(i)

\* C22 witness: a read of two parameters returned although the name read of
\* the first one wrote nothing.
C22_Witness ==
  /\ BatchGetCounted
  /\ last.ret = 1
  /\ last.out_param_count = Cell(2)
  /\ last.h.items[1].name = NULL
  /\ Len(last.calls) = 7

\* C27: the batch read writes only slots with index i < out_count, and
\* out_count <= max_params: no slot at index >= max_params is written for
\* any native count, and the slots in [out_count, max_params) are exactly as
\* the caller supplied them.
C27_WritesWithinCount ==
  (BatchGetDone /\ last.args.params # NULL)
  => LET n == IF BatchGetCounted /\ last.ret = 1 THEN last.out_param_count[2] ELSE 0 IN
     /\ n > 0 => n <= last.args.max_params
     /\ \A i \in 1..MaxParams :
          i > n => last.params[2][i] = last.args.params[2][i]

\* C27 witness: the host reported more parameters than the capacity of 1;
\* slot 0 was written and the slot after it still holds the earlier content.
C27_Witness ==
  /\ BatchGetCounted
  /\ last.ret = 1
  /\ last.args.max_params = 1
  /\ last.h.count > 1
  /\ last.params[2][1] # last.args.params[2][1]
  /\ last.params[2][2] = StaleParam

(***************************************************************************)
(* Properties of the multi-track apply.                                    *)
(***************************************************************************)

\* Change i (counted from 1) names no usable track: its track index is
\* negative or the track array holds NULL there.
InvalidTarget(i) ==
  LET track_idx == last.args.changes[2][i].track_index IN
  track_idx < 0 \/ last.args.tracks[2][track_idx + 1] = NULL

\* The positions in last.calls of the native set calls made for change i.
SetCallsFor(i) ==
  { k \in 1..Len(last.calls) :
      last.calls[k] =
        Native(HostFn(last.boot[2], "TrackFX_SetParam"),
               << last.args.tracks[2][last.args.changes[2][i].track_index + 1],
                  last.args.changes[2][i].fx_index,
                  last.args.changes[2][i].param_index,
                  last.args.changes[2][i].value >>) }

\* C28: in the multi-track apply, a change whose track index is negative or
\* whose track is NULL produces no native set call and makes the result
\* false, and every other change is still attempted exactly once.
C28_InvalidTargetSkipped ==
  MultiSetRan
  => /\ \A i \in 1..last.args.change_count :
          IF InvalidTarget(i)
            THEN \A k \in 1..Len(last.calls) :
                   last.calls[k].args[3] # last.args.changes[2][i].param_index
            ELSE Cardinality(SetCallsFor(i)) = 1
     /\ (\E i \in 1..last.args.change_count : InvalidTarget(i)) => last.ret = 0
     /\ Len(last.calls) =
          Cardinality({ i \in 1..last.args.change_count : ~InvalidTarget(i) })

\* C28 witness: the first change names a negative track index, the second a
\* live track; the second was applied by a host that accepted it, and the
\* call returned false.
C28_Witness ==
  /\ MultiSetRan
  /\ last.args.change_count = 2
  /\ last.args.changes[2][1].track_index < 0
  /\ ~InvalidTarget(2)
  /\ last.h.results[2] = 1
  /\ Len(last.calls) = 1
  /\ last.ret = 0

(***************************************************************************)
(* The result slots of the multi-track read.                               *)
(***************************************************************************)

\* The number of result slots the FX of the first t tracks need: the sum of
\* the positive entries of fx_counts[0 .. t-1].
RECURSIVE SumPositive(_, _)
SumPositive(fx_counts, t) ==
  IF t = 0 THEN 0
  ELSE SumPositive(fx_counts, t - 1) + (IF fx_counts[t] > 0 THEN fx_counts[t] ELSE 0)

\* C29: in the multi-track read, for every fx_counts array (entries that are
\* zero or negative included), the flattened indices used for distinct
\* (track, FX) pairs are pairwise distinct and lie in
\* 0 .. (sum of the positive fx_counts) - 1.
C29_FlatIndicesInTable ==
  MultiGetRan
  => /\ \A k \in 1..Len(last.stores) :
          /\ last.stores[k].idx >= 0
          /\ last.stores[k].idx < SumPositive(last.args.fx_counts[2], last.args.track_count)
     /\ \A j, k \in 1..Len(last.stores) :
          j # k => last.stores[j].idx # last.stores[k].idx

(***************************************************************************)
(* Properties of the engines run step by step.                             *)
(***************************************************************************)

C24_InvalidInputRejectedFirst ==
  (last.op \in BatchEngines /\ InvalidInput(last.op, last.args))
  => /\ last.ret = 0
     /\ last.reads = 0
     /\ last.boot = NULL
     /\ last.lookups = <<>>
     /\ last.calls = <<>>

\* C24 witness: a multi-track apply with a non-positive count has returned
\* while a handle was stored.
C24_Witness ==
  /\ last.op = "plugin_bridge_batch_set_multi_track_fx_parameters"
  /\ last.args.tracks # NULL /\ last.args.changes # NULL
  /\ last.args.change_count <= 0
  /\ last.stored # NULL
  /\ last.ret = 0

C25_SetOnceUnderRaces ==
  [][ s_GetFunc # NULL => s_GetFunc' = s_GetFunc ]_vars

----------------------------------------------------------------------------
(* Diagnostic logging: src/reaper_ext_logging.h and                        *)
(* src/reaper_ext_logging.c.  Every wrapper logs on entry, on rejection,   *)
(* before the native call and after it.  A LOG_X(...) statement expands to *)
(*   do { if (LOG_X_ENABLED) log_message_v(LOG_X, __func__, ...); }        *)
(*   while (0)                                                             *)
(* so its arguments are evaluated only when the statement is enabled.      *)
(* What a statement can do to the call it sits in is decided by the memory *)
(* its arguments read: a %s argument reads the bytes of a string up to its *)
(* terminator, a *p argument reads one object.  In the specification       *)
(* below `remembered` holds the statics of the logging module and the      *)
(* number of lines in the log file.                                        *)

LOG_ERROR == 0
LOG_WARNING == 1
LOG_INFO == 2
LOG_DEBUG == 3
LOG_TRACE == 4

\* lines the configuration calls may put into the log file
MaxLines == 1

\* static LogLevel current_log_level = LOG_INFO;
\* static bool logging_enabled = false;
LoggerInit == [logging_enabled |-> FALSE, current_log_level |-> LOG_INFO, file |-> 0]

\* #define LOG_X_ENABLED (log_is_enabled() && log_get_level() >= LOG_X)
LogEnabled(lg, level) == lg.logging_enabled /\ lg.current_log_level >= level

\* void log_message(LogLevel level, const char* func, const char* message):
\* returns early when the statement is not enabled or the file cannot be
\* opened, else appends one line (opened: fopen(path, "a") succeeded)
log_message(lg, level, opened) ==
  IF LogEnabled(lg, level) /\ opened THEN [lg EXCEPT !.file = @ + 1] ELSE lg

\* void log_set_enabled(bool enabled)
log_set_enabled(lg, enabled, opened) ==
  IF enabled # lg.logging_enabled
    THEN LET set == [lg EXCEPT !.logging_enabled = enabled] IN
           IF enabled THEN log_message(set, LOG_INFO, opened) ELSE set
    ELSE lg

\* void log_set_level(LogLevel level)
log_set_level(lg, level, opened) ==
  IF level # lg.current_log_level /\ level >= LOG_ERROR /\ level <= LOG_TRACE
    THEN LET set == [lg EXCEPT !.current_log_level = level] IN
           IF set.logging_enabled THEN log_message(set, LOG_INFO, opened) ELSE set
    ELSE lg

\* The bytes of a caller's output buffer that nothing has written yet: they
\* need not hold a terminator.
Indeterminate == "indeterminate"
Uninit == Buf(Indeterminate)

\* One LOG_X statement: its level, the pointers its arguments read through
\* (in argument order) and the number of native calls made before it.
Stmt(level, reads, at) == [level |-> level, reads |-> reads, at |-> at]

\* the elements of a sequence of pointers that are not NULL (x ? x : "NULL")
RECURSIVE Guarded(_)
Guarded(ps) ==
  IF ps = <<>> THEN <<>>
  ELSE (IF Head(ps) = NULL THEN <<>> ELSE <<Head(ps)>>) \o Guarded(Tail(ps))

\* the const char* parameters of w in the order of its parameter list
StringParamList(w) ==
  CASE w = "plugin_bridge_call_track_get_info_value" -> <<"param">>
    [] w = "plugin_bridge_call_get_user_inputs" -> <<"title", "captions">>
    [] w = "plugin_bridge_call_show_message_box" -> <<"text", "title">>
    [] w \in { "plugin_bridge_call_get_ext_state", "plugin_bridge_call_has_ext_state",
               "plugin_bridge_call_delete_ext_state" } -> <<"section", "key">>
    [] w = "plugin_bridge_call_set_ext_state" -> <<"section", "key", "value">>
    [] w \in { "plugin_bridge_call_undo_end_block",
               "plugin_bridge_call_undo_end_block2" } -> <<"description">>
    [] w = "plugin_bridge_call_show_console_msg" -> <<"message">>
    [] w = "plugin_bridge_call_register" -> <<"name">>
    [] OTHER -> <<>>

\* LOG_DEBUG("Called with ...") on entry: every string parameter is passed
\* as  x ? x : "NULL"
EntryLog(w, a) ==
  Stmt(LOG_DEBUG, Guarded([k \in DOMAIN StringParamList(w) |-> a[StringParamList(w)[k]]]), 0)

\* LOG_ERROR("Invalid parameters ...") formats pointers with %p; the buffer
\* wrappers that empty a usable buffer add LOG_DEBUG("Buffer set to ...")
RejectLogs(w, a) ==
  << Stmt(LOG_ERROR, <<>>, 0) >>
  \o (IF /\ w \in BufferWrappers \ {"plugin_bridge_call_get_user_inputs"}
         /\ a.buf # NULL /\ a.buf_size > 0
        THEN << Stmt(LOG_DEBUG, <<>>, 0) >>
        ELSE <<>>)

\* LOG_DEBUG("Calling X with ...") after the validation: the strings it
\* formats with %s, unguarded
BeforeCallLog(w, a) ==
  Stmt(LOG_DEBUG,
       CASE w = "plugin_bridge_call_get_user_inputs" -> <<a.title>>
         [] w = "plugin_bridge_call_show_console_msg" -> <<>>
         [] OTHER -> [k \in DOMAIN StringParamList(w) |-> a[StringParamList(w)[k]]],
       0)

\* if (p) LOG_DEBUG("  p: %f", *p);
DerefLog(p) == IF p # NULL THEN << Stmt(LOG_DEBUG, <<p>>, 1) >> ELSE <<>>

\* LOG_DEBUG("X call completed ...") and what follows the native call; buf
\* is the output buffer as the native call left it
AfterCallLogs(w, a, r) ==
  CASE w \in { "plugin_bridge_call_track_fx_get_name",
               "plugin_bridge_call_track_fx_get_param_name",
               "plugin_bridge_call_track_fx_get_param_formatted",
               "plugin_bridge_call_track_fx_format_param_value",
               "plugin_bridge_call_get_user_inputs" } ->
         << Stmt(LOG_DEBUG, <<r.buf>>, 1) >>
    [] w = "plugin_bridge_call_get_track_name" ->
         << Stmt(LOG_DEBUG,
                 IF a.flags # NULL THEN <<r.buf, a.flags>> ELSE <<r.buf>>, 1) >>
    [] w = "plugin_bridge_call_track_fx_get_param" ->
         << Stmt(LOG_DEBUG,
                 IF a.minval # NULL /\ a.maxval # NULL
                   THEN <<a.minval, a.maxval>> ELSE <<>>, 1) >>
    [] w = "plugin_bridge_call_track_fx_get_parameter_step_sizes" ->
         IF r.ret # 0
           THEN << Stmt(LOG_DEBUG, <<>>, 1) >>
                \o DerefLog(a.step) \o DerefLog(a.small_step)
                \o DerefLog(a.large_step) \o DerefLog(a.is_toggle)
           ELSE << Stmt(LOG_DEBUG, <<>>, 1) >>
    [] w = "plugin_bridge_call_get_ext_state" ->
         << Stmt(LOG_DEBUG, Guarded(<<r.ret>>), 1) >>
    [] OTHER ->
         << Stmt(LOG_DEBUG, <<>>, 1) >>

\* The LOG_X statements wrapper w reaches, in order, when called with a and
\* returning r (r made no native call: the rejecting branch).
WrapperLogs(w, a, r) ==
  IF r.calls = <<>>
    THEN << EntryLog(w, a) >> \o RejectLogs(w, a)
    ELSE << EntryLog(w, a), BeforeCallLog(w, a) >> \o AfterCallLogs(w, a, r)

\* Formatting reads through p outside any object: p is NULL, or p is a
\* buffer whose bytes hold no terminator (%s runs past its end).
BadRead(p) == p = NULL \/ (p[1] = "buf" /\ p[2] = Indeterminate)

NoReturn == <<"no return">>

OutBuf(r) == IF "buf" \in DOMAIN r THEN r.buf ELSE NULL

InBuf(w, a) == IF w \in BufferWrappers THEN BufArg(w, a) ELSE NULL

\* Wrapper w called with a, the host answering n, under logger state lg.
\* An enabled statement evaluates its arguments; a bad read is undefined
\* behaviour, of which ub picks the outcome: "printed" (the bytes behind the
\* pointer happened to be readable and end in a zero byte, the line is
\* written and the call goes on) or "fault" (the call ends there and never
\* returns).  lines: the log_message calls that reached fopen.
Logged(w, a, n, lg, ub) ==
  LET r == CallOf(w, a, n)
      stmts == WrapperLogs(w, a, r)
      bad(i) == /\ LogEnabled(lg, stmts[i].level)
                /\ \E k \in DOMAIN stmts[i].reads : BadRead(stmts[i].reads[k])
      faults == IF ub = "fault" THEN { i \in DOMAIN stmts : bad(i) } ELSE {}
      stop == IF faults = {} THEN Len(stmts) + 1
              ELSE CHOOSE i \in faults : \A j \in faults : i <= j
      lines == Cardinality({ i \in 1..(stop - 1) : LogEnabled(lg, stmts[i].level) })
  IN  IF faults = {}
        THEN [fault |-> FALSE, ret |-> r.ret, calls |-> r.calls,
              buf |-> OutBuf(r), lines |-> lines]
        ELSE [fault |-> TRUE, ret |-> NoReturn,
              calls |-> SubSeq(r.calls, 1, stmts[stop].at),
              buf |-> IF stmts[stop].at = 0 THEN InBuf(w, a) ELSE OutBuf(r),
              lines |-> lines]

\* The calls of the wrappers, the output buffer of a call also drawn as
\* memory nothing has written yet.
LoggedCalls ==
  PendingCalls
  \cup { [c EXCEPT !.args.buf = Uninit]
         : c \in { p \in PendingCalls : "buf" \in DOMAIN p.args /\ p.args.buf # NULL } }

InitLogging ==
  /\ s_GetFunc = NULL
  /\ remembered = LoggerInit
  /\ pending \in LoggedCalls
  /\ last = NoneYet

\* the host application switches logging on or off
LogSetEnabled ==
  /\ remembered.file < MaxLines
  /\ \E enabled \in BOOLEAN, opened \in BOOLEAN :
       remembered' = log_set_enabled(remembered, enabled, opened)
  /\ UNCHANGED <<s_GetFunc, pending, last>>

\* the host application sets the level (values outside the enum included)
LogSetLevel ==
  /\ remembered.file < MaxLines
  /\ \E level \in (LOG_ERROR - 1)..(LOG_TRACE + 1), opened \in BOOLEAN :
       remembered' = log_set_level(remembered, level, opened)
  /\ UNCHANGED <<s_GetFunc, pending, last>>

\* the pending wrapper call is made under the logger's present state; quiet
\* is the same call, same host answer, with logging disabled
CallLogged ==
  /\ pending # NULL
  /\ \E ub \in {"printed", "fault"}, opened \in BOOLEAN :
       LET r == Logged(pending.wrapper, pending.args, pending.nat, remembered, ub)
           q == Logged(pending.wrapper, pending.args, pending.nat,
                       [remembered EXCEPT !.logging_enabled = FALSE], ub)
       IN  /\ last' = [op |-> pending.wrapper, args |-> pending.args,
                       nat |-> pending.nat, ret |-> r.ret, calls |-> r.calls,
                       lookups |-> <<>>, buf |-> r.buf, fault |-> r.fault,
                       lines |-> r.lines, level |-> remembered.current_log_level,
                       enabled |-> remembered.logging_enabled, quiet |-> q]
           /\ remembered' = [remembered EXCEPT
                               !.file = IF opened THEN @ + r.lines ELSE @]
  /\ pending' = NULL
  /\ UNCHANGED s_GetFunc

NextLogging == LogSetEnabled \/ LogSetLevel \/ CallLogged

SpecLogging == InitLogging /\ [][NextLogging]_vars

(* Property of the wrappers under diagnostic logging *)

\* C30: diagnostic logging does not influence the layer's behaviour: for the
\* same arguments and the same host answer a call returns (it does not end
\* inside a log statement) with the same value, the same native calls and
\* the same output written as the call made with logging disabled, whatever
\* the logger's enabled flag and level are.
C30_LoggingDoesNotInfluence ==
  last.op \in Wrappers =>
    /\ ~last.fault
    /\ last.ret = last.quiet.ret
    /\ last.calls = last.quiet.calls
    /\ last.buf = last.quiet.buf


====
